---- MODULE Spec2Model ----
(***************************************************************************)
(* Formula lexer and evaluator of aspose.cells                              *)
(* (src/aspose/cells/formula/tokenizer.py, evaluator.py, functions.py).     *)
(*                                                                         *)
(* Text is a sequence of one-character strings; positions are 1-based      *)
(* (Python position p is p+1 here).  Python floats are modelled as exact    *)
(* rationals n/d; a value remembers whether Python holds it as int or      *)
(* float (field f).                                                        *)
(***************************************************************************)
EXTENDS Integers, Sequences, FiniteSets, TLC

None == "None"

\* ------------------------------------------------------------------------
\* Characters
\* ------------------------------------------------------------------------
UpperSeq == <<"A","B","C","D","E","F","G","H","I","J","K","L","M",
              "N","O","P","Q","R","S","T","U","V","W","X","Y","Z">>
LowerSeq == <<"a","b","c","d","e","f","g","h","i","j","k","l","m",
              "n","o","p","q","r","s","t","u","v","w","x","y","z">>
DigitSeq == <<"0","1","2","3","4","5","6","7","8","9">>

IsUpper(c) == \E i \in 1..26 : UpperSeq[i] = c
IsLower(c) == \E i \in 1..26 : LowerSeq[i] = c
isdigit(c) == \E i \in 1..10 : DigitSeq[i] = c
isalpha(c) == IsUpper(c) \/ IsLower(c)
isalnum(c) == isalpha(c) \/ isdigit(c)
isspace(c) == c = " "

DigitVal(c) == (CHOOSE i \in 1..10 : DigitSeq[i] = c) - 1

upperChar(c) == IF IsLower(c) THEN UpperSeq[CHOOSE i \in 1..26 : LowerSeq[i] = c] ELSE c
upper(s) == [i \in 1..Len(s) |-> upperChar(s[i])]

\* str.strip() of the modelled alphabet (blank is the only whitespace)
RECURSIVE lstrip(_)
lstrip(s) == IF s # <<>> /\ isspace(s[1]) THEN lstrip(Tail(s)) ELSE s
RECURSIVE rstrip(_)
rstrip(s) == IF s # <<>> /\ isspace(s[Len(s)]) THEN rstrip(SubSeq(s, 1, Len(s) - 1)) ELSE s
strip(s) == rstrip(lstrip(s))

\* ------------------------------------------------------------------------
\* Tokens (tokenizer.py, class Token)
\* ------------------------------------------------------------------------
OPERAND == "OPERAND"
FUNCTION == "FUNCTION"
SUBEXPR == "SUBEXPR"
ARGUMENT == "ARGUMENT"
OPERATOR == "OPERATOR"
TEXT == "TEXT"
NUMBER == "NUMBER"
LOGICAL == "LOGICAL"
RANGE == "RANGE"
REFERENCE == "REFERENCE"
ERROR == "ERROR"
MATH == "MATH"
CONCAT == "CONCAT"

Token(value, type, subtype) == [value |-> value, type |-> type, subtype |-> subtype]

ERROR_CODES == { <<"#","N","U","L","L","!">>, <<"#","D","I","V","/","0","!">>,
                 <<"#","V","A","L","U","E","!">>, <<"#","R","E","F","!">>,
                 <<"#","N","A","M","E","?">>, <<"#","N","U","M","!">>,
                 <<"#","N","/","A">> }

_current_char(f, pos) == IF pos <= Len(f) THEN f[pos] ELSE None
_peek_char(f, pos) == IF pos + 1 <= Len(f) THEN f[pos + 1] ELSE None

RECURSIVE _skip_whitespace(_, _)
_skip_whitespace(f, pos) ==
    IF pos <= Len(f) /\ isspace(f[pos]) THEN _skip_whitespace(f, pos + 1) ELSE pos

\* --- regular expressions of class Tokenizer --------------------------------
AllDigits(s) == \A i \in 1..Len(s) : isdigit(s[i])
AllUpper(s) == \A i \in 1..Len(s) : IsUpper(s[i])

\* (\$?)([A-Z]+)(\$?)(\d+) anchored at both ends
CELL_REF_PATTERN(s) ==
    \E a \in 0..1, l \in 1..Len(s), b \in 0..1 :
        /\ a + l + b < Len(s)
        /\ (a = 1 => s[1] = "$")
        /\ AllUpper(SubSeq(s, a + 1, a + l))
        /\ (b = 1 => s[a + l + 1] = "$")
        /\ AllDigits(SubSeq(s, a + l + b + 1, Len(s)))

\* (\$?[A-Z]+\$?\d+):(\$?[A-Z]+\$?\d+) anchored at both ends
RANGE_PATTERN(s) ==
    \E c \in 1..Len(s) :
        /\ s[c] = ":"
        /\ CELL_REF_PATTERN(SubSeq(s, 1, c - 1))
        /\ CELL_REF_PATTERN(SubSeq(s, c + 1, Len(s)))

\* [Ee][+-]?\d+ or empty
ExponentPart(s) ==
    \/ s = <<>>
    \/ /\ Len(s) >= 2
       /\ s[1] \in {"E", "e"}
       /\ LET r == IF s[2] \in {"+", "-"} THEN SubSeq(s, 3, Len(s)) ELSE SubSeq(s, 2, Len(s))
          IN r # <<>> /\ AllDigits(r)

\* \d+(\.\d*)?  or  \d*\.\d+
MantissaPart(s) ==
    \/ s # <<>> /\ AllDigits(s)
    \/ \E p \in 1..Len(s) :
        /\ s[p] = "."
        /\ AllDigits(SubSeq(s, 1, p - 1))
        /\ AllDigits(SubSeq(s, p + 1, Len(s)))
        /\ Len(s) >= 2

\* ^-?\d+(\.\d*)?([Ee][+-]?\d+)?$|^-?\d*\.\d+([Ee][+-]?\d+)?$
NUMBER_PATTERN(s) ==
    LET u == IF s # <<>> /\ s[1] = "-" THEN Tail(s) ELSE s
    IN \E m \in 1..Len(u) :
        /\ MantissaPart(SubSeq(u, 1, m))
        /\ ExponentPart(SubSeq(u, m + 1, Len(u)))

\* ------------------------------------------------------------------------
\* Tokenizer (tokenizer.py, class Tokenizer).  Every _try_* returns
\* [hit, pos, toks, exc]: whether it consumed input, the new position, the
\* tokens it appended, and the Python exception it raised (None if none).
\* ------------------------------------------------------------------------
Miss(pos) == [hit |-> FALSE, pos |-> pos, toks |-> <<>>, exc |-> None]
Hit(pos, toks) == [hit |-> TRUE, pos |-> pos, toks |-> toks, exc |-> None]
Raise(pos, e) == [hit |-> FALSE, pos |-> pos, toks |-> <<>>, exc |-> e]

RECURSIVE ScanString(_, _, _, _)
ScanString(f, pos, quote_char, value) ==
    IF pos > Len(f) THEN [pos |-> pos, value |-> value]
    ELSE IF f[pos] = quote_char
         THEN IF _peek_char(f, pos) = quote_char
              THEN ScanString(f, pos + 2, quote_char, Append(value, quote_char))
              ELSE [pos |-> pos + 1, value |-> value]
         ELSE ScanString(f, pos + 1, quote_char, Append(value, f[pos]))

_try_string(f, pos) ==
    IF _current_char(f, pos) \notin {"\"", "'"} THEN Miss(pos)
    ELSE LET r == ScanString(f, pos + 1, f[pos], <<>>)
         IN Hit(r.pos, <<Token(r.value, OPERAND, TEXT)>>)

\* the digit-collecting loop of _try_number; exc is "TypeError" when the
\* text ends right after the exponent letter (None in '+-')
RECURSIVE ScanNumber(_, _, _)
ScanNumber(f, pos, value) ==
    IF pos > Len(f) THEN [pos |-> pos, value |-> value, exc |-> None]
    ELSE LET char == f[pos] IN
         IF isdigit(char) \/ char = "."
         THEN ScanNumber(f, pos + 1, Append(value, char))
         ELSE IF char \in {"E", "e"} /\ value # <<>> /\ isdigit(value[Len(value)])
         THEN IF _current_char(f, pos + 1) = None
              THEN [pos |-> pos + 1, value |-> Append(value, char), exc |-> "TypeError"]
              ELSE IF _current_char(f, pos + 1) \in {"+", "-"}
                   THEN ScanNumber(f, pos + 2, Append(Append(value, char), f[pos + 1]))
                   ELSE ScanNumber(f, pos + 1, Append(value, char))
         ELSE [pos |-> pos, value |-> value, exc |-> None]

can_be_negative(tokens) ==
    \/ Len(tokens) = 0
    \/ tokens[Len(tokens)].type \in {OPERATOR, SUBEXPR, ARGUMENT}

_try_number(f, pos, tokens) ==
    IF _current_char(f, pos) = "-" /\ ~can_be_negative(tokens) THEN Miss(pos)
    ELSE LET neg == _current_char(f, pos) = "-"
             r == ScanNumber(f, IF neg THEN pos + 1 ELSE pos, IF neg THEN <<"-">> ELSE <<>>)
         IN IF r.exc # None THEN Raise(pos, r.exc)
            ELSE IF r.value # <<>> /\ NUMBER_PATTERN(r.value)
                 THEN Hit(r.pos, <<Token(r.value, OPERAND, NUMBER)>>)
                 ELSE Miss(pos)

OperatorChars == {"+", "-", "*", "/", "^", "&", "=", "<", ">", "%"}

_try_operator(f, pos) ==
    LET char == _current_char(f, pos)
        next_char == _peek_char(f, pos)
    IN IF char \notin OperatorChars THEN Miss(pos)
       ELSE IF char = "<" /\ next_char = ">" THEN Hit(pos + 2, <<Token(<<"<", ">">>, OPERATOR, MATH)>>)
       ELSE IF char = "<" /\ next_char = "=" THEN Hit(pos + 2, <<Token(<<"<", "=">>, OPERATOR, MATH)>>)
       ELSE IF char = ">" /\ next_char = "=" THEN Hit(pos + 2, <<Token(<<">", "=">>, OPERATOR, MATH)>>)
       ELSE Hit(pos + 1, <<Token(<<char>>, OPERATOR, IF char = "&" THEN CONCAT ELSE MATH)>>)

\* the name-collecting loop of _try_function
RECURSIVE ScanName(_, _, _)
ScanName(f, pos, value) ==
    IF pos <= Len(f) /\ (isalnum(f[pos]) \/ f[pos] \in {"_", "."})
    THEN ScanName(f, pos + 1, Append(value, f[pos]))
    ELSE [pos |-> pos, value |-> value]

\* ^[A-Z_][A-Z0-9_.]*$
FUNCTION_PATTERN(s) ==
    /\ s # <<>>
    /\ IsUpper(s[1]) \/ s[1] = "_"
    /\ \A i \in 2..Len(s) : IsUpper(s[i]) \/ isdigit(s[i]) \/ s[i] \in {"_", "."}

_try_function(f, pos) ==
    LET char == _current_char(f, pos) IN
    IF ~(isalpha(char) \/ char = "_") THEN Miss(pos)
    ELSE LET r == ScanName(f, pos, <<>>)
             p == _skip_whitespace(f, r.pos)
         IN IF _current_char(f, p) = "(" /\ FUNCTION_PATTERN(upper(r.value))
            THEN Hit(p, <<Token(upper(r.value), FUNCTION, "")>>)
            ELSE Miss(pos)

RECURSIVE ScanRef(_, _, _)
ScanRef(f, pos, value) ==
    IF pos <= Len(f) /\ (isalnum(f[pos]) \/ f[pos] \in {"$", ":"})
    THEN ScanRef(f, pos + 1, Append(value, f[pos]))
    ELSE [pos |-> pos, value |-> value]

_try_reference(f, pos) ==
    LET r == ScanRef(f, pos, <<>>)
        v == upper(r.value)
    IN IF r.value = <<>> THEN Miss(pos)
       ELSE IF (\E i \in 1..Len(v) : v[i] = ":") /\ RANGE_PATTERN(v)
            THEN Hit(r.pos, <<Token(v, OPERAND, RANGE)>>)
       ELSE IF CELL_REF_PATTERN(v)
            THEN Hit(r.pos, <<Token(v, OPERAND, REFERENCE)>>)
       ELSE Miss(pos)

RECURSIVE ScanError(_, _, _)
ScanError(f, pos, value) ==
    IF pos <= Len(f) /\ (isalnum(f[pos]) \/ f[pos] \in {"#", "!", "/", "?"})
    THEN ScanError(f, pos + 1, Append(value, f[pos]))
    ELSE [pos |-> pos, value |-> value]

_try_error(f, pos) ==
    IF _current_char(f, pos) # "#" THEN Miss(pos)
    ELSE LET r == ScanError(f, pos, <<>>)
         IN IF r.value \in ERROR_CODES
            THEN Hit(r.pos, <<Token(r.value, OPERAND, ERROR)>>)
            ELSE Miss(pos)

_try_parenthesis(f, pos) ==
    LET char == _current_char(f, pos) IN
    IF char = "(" THEN Hit(pos + 1, <<Token(<<"(">>, SUBEXPR, "OPEN")>>)
    ELSE IF char = ")" THEN Hit(pos + 1, <<Token(<<")">>, SUBEXPR, "CLOSE")>>)
    ELSE Miss(pos)

_try_separator(f, pos) ==
    LET char == _current_char(f, pos) IN
    IF char \in {",", ";"} THEN Hit(pos + 1, <<Token(<<char>>, ARGUMENT, "")>>)
    ELSE Miss(pos)

TextBreakChars == {"(", ")", "+", "-", "*", "/", "^", "&", "=", "<", ">", "%", ",", ";"}

RECURSIVE ScanText(_, _, _)
ScanText(f, pos, value) ==
    IF pos <= Len(f) /\ ~isspace(f[pos]) /\ f[pos] \notin TextBreakChars
    THEN ScanText(f, pos + 1, Append(value, f[pos]))
    ELSE [pos |-> pos, value |-> value]

\* hit is FALSE when nothing was consumed (the loop of _tokenize would
\* then see the same position again)
_consume_text(f, pos) ==
    LET r == ScanText(f, pos, <<>>)
    IN IF r.value # <<>> THEN Hit(r.pos, <<Token(r.value, OPERAND, TEXT)>>)
       ELSE Miss(pos)

\* one iteration of the while loop of _tokenize, after _skip_whitespace
TokenizeOne(f, pos, tokens) ==
    LET s == _try_string(f, pos)
        n == _try_number(f, pos, tokens)
        o == _try_operator(f, pos)
        u == _try_function(f, pos)
        r == _try_reference(f, pos)
        e == _try_error(f, pos)
        p == _try_parenthesis(f, pos)
        a == _try_separator(f, pos)
    IN IF s.hit THEN s
       ELSE IF n.hit \/ n.exc # None THEN n
       ELSE IF o.hit THEN o
       ELSE IF u.hit THEN u
       ELSE IF r.hit THEN r
       ELSE IF e.hit THEN e
       ELSE IF p.hit THEN p
       ELSE IF a.hit THEN a
       ELSE _consume_text(f, pos)

\* the while loop of _tokenize: [exc, tokens]; exc is None on normal exit,
\* the exception raised, or "Hang" if an iteration made no progress
RECURSIVE TokenizeLoop(_, _, _)
TokenizeLoop(f, pos, tokens) ==
    LET Advance(r) ==
            IF r.exc # None THEN [exc |-> r.exc, tokens |-> tokens]
            ELSE IF ~r.hit THEN [exc |-> "Hang", tokens |-> tokens]
            ELSE TokenizeLoop(f, r.pos, tokens \o r.toks)
        Skipped(p) ==
            IF p > Len(f) THEN [exc |-> None, tokens |-> tokens]
            ELSE Advance(TokenizeOne(f, p, tokens))
    IN Skipped(_skip_whitespace(f, pos))

\* Tokenizer(formula): __init__ strips the text, _tokenize skips a leading =
Tokenizer(formula) ==
    LET f == strip(formula) IN
    IF f = <<>> THEN [exc |-> None, tokens |-> <<>>]
    ELSE TokenizeLoop(f, IF f[1] = "=" THEN 2 ELSE 1, <<>>)

\* ------------------------------------------------------------------------
\* Python values.  num: the rational n/d (d > 0, lowest terms), f = TRUE
\* for a float, FALSE for an int.  irr: a float whose value the model does
\* not compute (an irrational root).  complex: a complex number.
\* ------------------------------------------------------------------------
Abs(x) == IF x < 0 THEN -x ELSE x

RECURSIVE GCD(_, _)
GCD(a, b) == IF b = 0 THEN a ELSE GCD(b, a % b)

Num(n, d, f) ==
    LET g == GCD(Abs(n), Abs(d))
        sg == IF d < 0 THEN -1 ELSE 1
    IN [k |-> "num", n |-> sg * (n \div g), d |-> sg * (d \div g), f |-> f]
PyInt(n) == [k |-> "num", n |-> n, d |-> 1, f |-> FALSE]
PyFloat(n, d) == Num(n, d, TRUE)
PyBool(b) == [k |-> "bool", b |-> b]
PyStr(s) == [k |-> "str", s |-> s]
PyList(items) == [k |-> "list", items |-> items]
Irr == [k |-> "irr"]
Complex == [k |-> "complex"]
\* a value outside the modelled domain (a comparison with an irrational
\* float, the result of a function that is not modelled); every operation
\* on it yields it again
Unmodelled == [k |-> "unmodelled"]
\* a datetime.datetime or datetime.date, kept as the text str() prints
PyDatetime(iso) == [k |-> "datetime", iso |-> iso]
Opaque(v) == v.k \in {"irr", "unmodelled"}

\* outcomes of a call: a returned value or a raised exception
Val(v) == [st |-> "val", v |-> v]
Exc(e) == [st |-> "exc", e |-> e]

\* the ExcelError subclasses (functions.py 16-42, evaluator.py 14-17)
ExcelErrorKinds == {"DivisionByZero", "Value", "Num", "Name", "Circular"}

\* ExcelError.__str__
ErrorText(e) ==
    CASE e = "DivisionByZero" -> <<"#","D","I","V","/","0","!">>
      [] e = "Value" -> <<"#","V","A","L","U","E","!">>
      [] e = "Num" -> <<"#","N","U","M","!">>
      [] e = "Name" -> <<"#","N","A","M","E","?">>
      [] e = "Circular" -> <<"#","C","I","R","C","U","L","A","R","!">>

\* --- decimal text <-> numbers ---------------------------------------------
RECURSIVE Pow10(_)
Pow10(k) == IF k = 0 THEN 1 ELSE 10 * Pow10(k - 1)

RECURSIVE DigitsVal(_)
DigitsVal(s) == IF s = <<>> THEN 0 ELSE 10 * DigitsVal(SubSeq(s, 1, Len(s) - 1)) + DigitVal(s[Len(s)])

RECURSIVE Digits(_)
Digits(n) == IF n < 10 THEN <<DigitSeq[n + 1]>> ELSE Append(Digits(n \div 10), DigitSeq[(n % 10) + 1])

IndexOf(s, c) == IF \E i \in 1..Len(s) : s[i] = c THEN CHOOSE i \in 1..Len(s) : s[i] = c /\ \A j \in 1..(i - 1) : s[j] # c ELSE 0
Contains(s, c) == \E i \in 1..Len(s) : s[i] = c

\* the value of mantissa text (digits with at most one point) as <<n, d>>
MantissaVal(m) ==
    LET p == IndexOf(m, ".") IN
    IF p = 0 THEN <<DigitsVal(m), 1>>
    ELSE LET fr == SubSeq(m, p + 1, Len(m))
         IN <<DigitsVal(SubSeq(m, 1, p - 1)) * Pow10(Len(fr)) + DigitsVal(fr), Pow10(Len(fr))>>

\* the largest decimal exponent of a number text whose value is computed
MaxExponent == 8

\* the value of text accepted by FloatSyntax or IntSyntax (blanks stripped):
\* [n, d, big], big when the exponent is beyond MaxExponent
DecimalVal(s) ==
    LET Scaled(sg, mv, eNeg, e) ==
            IF e > MaxExponent THEN [n |-> 0, d |-> 1, big |-> TRUE]
            ELSE IF eNeg THEN [n |-> sg * mv[1], d |-> mv[2] * Pow10(e), big |-> FALSE]
            ELSE [n |-> sg * mv[1] * Pow10(e), d |-> mv[2], big |-> FALSE]
        \* m: the mantissa text, x: the exponent text after the letter
        Parts(sg, m, x) ==
            Scaled(sg, MantissaVal(m), x # <<>> /\ x[1] = "-",
                   DigitsVal(IF x # <<>> /\ x[1] \in {"+", "-"} THEN Tail(x) ELSE x))
        Split(sg, u, ePos) ==
            Parts(sg, IF ePos = 0 THEN u ELSE SubSeq(u, 1, ePos - 1),
                  IF ePos = 0 THEN <<>> ELSE SubSeq(u, ePos + 1, Len(u)))
        Unsigned(sg, u) ==
            Split(sg, u, IF Contains(u, "E") THEN IndexOf(u, "E") ELSE IndexOf(u, "e"))
    IN Unsigned(IF s[1] = "-" THEN -1 ELSE 1, IF s[1] \in {"-", "+"} THEN Tail(s) ELSE s)

\* text Python's float() accepts: optional sign, mantissa, optional exponent,
\* surrounding blanks ignored (inf, nan and digit-group underscores are
\* outside the modelled alphabet)
FloatSyntax(s) ==
    LET t == strip(s)
        u == IF t # <<>> /\ t[1] \in {"-", "+"} THEN Tail(t) ELSE t
    IN \E m \in 1..Len(u) :
        /\ MantissaPart(SubSeq(u, 1, m))
        /\ ExponentPart(SubSeq(u, m + 1, Len(u)))

\* text Python's int() accepts: optional sign and digits
IntSyntax(s) ==
    LET t == strip(s)
        u == IF t # <<>> /\ t[1] \in {"-", "+"} THEN Tail(t) ELSE t
    IN u # <<>> /\ AllDigits(u)

\* float(text) and int(text): Val or Exc("ValueError")
float_of_text(s) ==
    LET Float(q) == IF q.big THEN Val(Unmodelled) ELSE Val(PyFloat(q.n, q.d))
    IN IF FloatSyntax(s) THEN Float(DecimalVal(strip(s))) ELSE Exc("ValueError")
int_of_text(s) ==
    IF IntSyntax(s) THEN Val(PyInt(DecimalVal(strip(s)).n)) ELSE Exc("ValueError")

\* float(x) for any value x: Val(float), Exc("ValueError") or Exc("TypeError")
float(v) ==
    CASE v.k = "num" -> Val([v EXCEPT !.f = TRUE])
      [] v.k = "bool" -> Val(PyFloat(IF v.b THEN 1 ELSE 0, 1))
      [] v.k \in {"irr", "unmodelled"} -> Val(v)
      [] v.k = "str" -> float_of_text(v.s)
      [] OTHER -> Exc("TypeError")

\* the longest decimal expansion str() is modelled to print exactly
MaxDecimals == 6

\* str(x) of a float n/d: integral -> digits ".0"; a short terminating
\* decimal of magnitude 0.0001 or more -> its digits; otherwise an opaque
\* spelling that is distinct for distinct values (Python prints the shortest
\* round-trip decimal, in scientific notation below 0.0001)
float_str(n, d) ==
    LET a == Abs(n)
        sign == IF n < 0 THEN <<"-">> ELSE <<>>
    IN IF d = 1 THEN sign \o Digits(a) \o <<".", "0">>
       ELSE IF a > (d - 1) \div 10000 /\ \E j \in 1..MaxDecimals : Pow10(j) % d = 0
       THEN LET j == CHOOSE i \in 1..MaxDecimals : Pow10(i) % d = 0 /\ \A h \in 1..(i - 1) : Pow10(h) % d # 0
                fr == Digits(((a * Pow10(j)) \div d) % Pow10(j))
                pad == [i \in 1..(j - Len(fr)) |-> "0"]
            IN sign \o Digits(a \div d) \o <<".">> \o pad \o fr
       ELSE sign \o <<"float:">> \o Digits(a) \o <<"/">> \o Digits(d)

\* str(x); list elements are printed by repr (text in quotes)
RECURSIVE str(_)
RECURSIVE ListText(_, _)
ListText(items, i) ==
    IF i > Len(items) THEN <<>>
    ELSE (IF i > 1 THEN <<",", " ">> ELSE <<>>)
         \o (IF items[i].k = "str" THEN <<"'">> \o items[i].s \o <<"'">> ELSE str(items[i]))
         \o ListText(items, i + 1)
str(v) ==
    CASE v.k = "num" -> IF v.f THEN float_str(v.n, v.d)
                        ELSE (IF v.n < 0 THEN <<"-">> ELSE <<>>) \o Digits(Abs(v.n))
      [] v.k = "bool" -> IF v.b THEN <<"T","r","u","e">> ELSE <<"F","a","l","s","e">>
      [] v.k = "str" -> v.s
      [] v.k = "list" -> <<"[">> \o ListText(v.items, 1) \o <<"]">>
      [] v.k = "irr" -> <<"float:irr">>
      [] v.k = "unmodelled" -> <<"unmodelled">>
      [] v.k = "complex" -> <<"complex">>
      [] v.k = "datetime" -> v.iso
      [] v.k = "none" -> <<"N","o","n","e">>

\* ------------------------------------------------------------------------
\* Arithmetic on floats (exact rationals)
\* ------------------------------------------------------------------------
RECURSIVE IntPow(_, _)
IntPow(b, e) == IF e = 0 THEN 1 ELSE b * IntPow(b, e - 1)

\* the result of arithmetic on operands of which one is opaque
OpaqueResult(a, b) == IF a.k = "unmodelled" \/ b.k = "unmodelled" THEN Unmodelled ELSE Irr
fadd(a, b) == IF Opaque(a) \/ Opaque(b) THEN OpaqueResult(a, b) ELSE PyFloat(a.n * b.d + b.n * a.d, a.d * b.d)
fsub(a, b) == IF Opaque(a) \/ Opaque(b) THEN OpaqueResult(a, b) ELSE PyFloat(a.n * b.d - b.n * a.d, a.d * b.d)
fmul(a, b) == IF Opaque(a) \/ Opaque(b) THEN OpaqueResult(a, b) ELSE PyFloat(a.n * b.n, a.d * b.d)
fdiv(a, b) == IF Opaque(a) \/ Opaque(b) THEN OpaqueResult(a, b) ELSE PyFloat(a.n * b.d, a.d * b.n)
fzero(a) == a.k = "num" /\ a.n = 0
flt(a, b) == a.n * b.d < b.n * a.d
\* the result of a float comparison
fcmp(a, b, holds) == IF Opaque(a) \/ Opaque(b) THEN Unmodelled ELSE PyBool(holds)

\* float ** float: Val or Exc("ZeroDivisionError")
fpow(a, b) ==
    IF Opaque(a) \/ Opaque(b) THEN Val(OpaqueResult(a, b))
    ELSE IF b.d = 1
    THEN IF b.n >= 0 THEN Val(PyFloat(IntPow(a.n, b.n), IntPow(a.d, b.n)))
         ELSE IF a.n = 0 THEN Exc("ZeroDivisionError")
         ELSE Val(PyFloat(IntPow(a.d, -b.n), IntPow(a.n, -b.n)))
    ELSE IF a.n = 0 THEN (IF b.n > 0 THEN Val(PyFloat(0, 1)) ELSE Exc("ZeroDivisionError"))
    ELSE IF a.n < 0 THEN Val(Complex)
    ELSE IF a.n = a.d THEN Val(PyFloat(1, 1))
    ELSE Val(Irr)

\* the numeric value of an int, float or bool, as a float
AsFloat(v) == IF v.k = "bool" THEN PyFloat(IF v.b THEN 1 ELSE 0, 1) ELSE [v EXCEPT !.f = TRUE]
IsNumeric(v) == v.k \in {"num", "bool"}

\* Python's ==  (numbers and booleans compare by value, text with text,
\* lists element by element, values of different kinds are unequal)
RECURSIVE PyEq(_, _)
PyEq(a, b) ==
    IF IsNumeric(a) /\ IsNumeric(b) THEN AsFloat(a) = AsFloat(b)
    ELSE IF a.k = "str" /\ b.k = "str" THEN a.s = b.s
    ELSE IF a.k = "list" /\ b.k = "list"
         THEN /\ Len(a.items) = Len(b.items)
              /\ \A i \in 1..Len(a.items) : PyEq(a.items[i], b.items[i])
    ELSE FALSE

\* ------------------------------------------------------------------------
\* _apply_operator (evaluator.py 324-360)
\* ------------------------------------------------------------------------
\* except (ValueError, TypeError) -> ValueErrorExcel; except ZeroDivisionError
\* -> DivisionByZeroError
OperatorExcept(e) ==
    IF e \in {"ValueError", "TypeError"} THEN "Value"
    ELSE IF e = "ZeroDivisionError" THEN "DivisionByZero"
    ELSE e

_apply_operator(op, left, right) ==
    LET \* l, r: float(left), float(right); conv: the exception of the first
        \* conversion that fails, as the except clauses turn it
        Apply(l, r, both, conv) ==
            CASE op = <<"+">> -> IF both THEN Val(fadd(l.v, r.v)) ELSE conv
                [] op = <<"-">> -> IF both THEN Val(fsub(l.v, r.v)) ELSE conv
                [] op = <<"*">> -> IF both THEN Val(fmul(l.v, r.v)) ELSE conv
                [] op = <<"/">> -> IF r.st = "exc" THEN Exc(OperatorExcept(r.e))
                                   ELSE IF fzero(r.v) THEN Exc("DivisionByZero")
                                   ELSE IF l.st = "exc" THEN Exc(OperatorExcept(l.e))
                                   ELSE Val(fdiv(l.v, r.v))
                [] op = <<"^">> -> IF ~both THEN conv
                                   ELSE LET Power(p) == IF p.st = "exc" THEN Exc(OperatorExcept(p.e)) ELSE p
                                        IN Power(fpow(l.v, r.v))
                [] op = <<"&">> -> Val(PyStr(str(left) \o str(right)))
                [] op = <<"=">> -> Val(IF Opaque(left) \/ Opaque(right) THEN Unmodelled
                                       ELSE PyBool(PyEq(left, right)))
                [] op = <<"<">> -> IF both THEN Val(fcmp(l.v, r.v, flt(l.v, r.v))) ELSE conv
                [] op = <<">">> -> IF both THEN Val(fcmp(l.v, r.v, flt(r.v, l.v))) ELSE conv
                [] op = <<"<", "=">> -> IF both THEN Val(fcmp(l.v, r.v, ~flt(r.v, l.v))) ELSE conv
                [] op = <<">", "=">> -> IF both THEN Val(fcmp(l.v, r.v, ~flt(l.v, r.v))) ELSE conv
                [] op = <<"<", ">">> -> Val(IF Opaque(left) \/ Opaque(right) THEN Unmodelled
                                            ELSE PyBool(~PyEq(left, right)))
                [] OTHER -> Val(PyInt(0))
        Converted(l, r) ==
            Apply(l, r, l.st = "val" /\ r.st = "val",
                  IF l.st = "exc" THEN Exc(OperatorExcept(l.e)) ELSE Exc(OperatorExcept(r.e)))
    IN Converted(float(left), float(right))

\* _precedence with the comparison operators in the tier of + - &
_precedenceThreeTiers(op) ==
    CASE op = <<"^">> -> 4
      [] op \in {<<"*">>, <<"/">>} -> 3
      [] op \in {<<"+">>, <<"-">>, <<"&">>,
                 <<"=">>, <<"<">>, <<">">>, <<"<", "=">>, <<">", "=">>, <<"<", ">">>} -> 2
      [] OTHER -> 0

\* _precedence (evaluator.py 313-322)
_precedence(op) ==
    CASE op = <<"^">> -> 4
      [] op \in {<<"*">>, <<"/">>} -> 3
      [] op \in {<<"+">>, <<"-">>, <<"&">>} -> 2
      [] op \in {<<"=">>, <<"<">>, <<">">>, <<"<", "=">>, <<">", "=">>, <<"<", ">">>} -> 1
      [] OTHER -> 0

\* ------------------------------------------------------------------------
\* Function library (functions.py).  Every func_* takes the sequence of
\* already evaluated arguments and yields Val(v) or Exc(e); a call with the
\* wrong number of arguments is Python's TypeError.
\* ------------------------------------------------------------------------
\* to_number (functions.py 45-57); bool is an int to isinstance
to_number(v) ==
    CASE v.k \in {"num", "bool", "irr", "unmodelled"} -> Val(v)
      [] v.k = "str" -> LET Converted(r) == IF r.st = "exc" THEN Exc("Value") ELSE r
                        IN Converted(IF Contains(v.s, ".") THEN float_of_text(v.s)
                                     ELSE int_of_text(v.s))
      [] OTHER -> Exc("Value")

\* to_boolean (functions.py 70-85)
to_boolean(v) ==
    CASE v.k = "bool" -> Val(v.b)
      [] v.k = "num" -> Val(v.n # 0)
      [] v.k = "irr" -> Val(TRUE)
      [] v.k = "unmodelled" -> Exc("Unmodelled")
      [] v.k = "str" -> IF upper(v.s) = <<"T","R","U","E">> THEN Val(TRUE)
                        ELSE IF upper(v.s) = <<"F","A","L","S","E">> THEN Val(FALSE)
                        ELSE Exc("Value")
      [] OTHER -> Exc("Value")

\* Python arithmetic on int, float and bool operands: the result is a float
\* as soon as one operand is
IsFloatVal(v) == v.k = "irr" \/ (v.k = "num" /\ v.f)
padd(a, b) ==
    IF Opaque(a) \/ Opaque(b) THEN OpaqueResult(a, b)
    ELSE LET x == AsFloat(a)
             y == AsFloat(b)
         IN Num(x.n * y.d + y.n * x.d, x.d * y.d, IsFloatVal(a) \/ IsFloatVal(b))
plt(a, b) == flt(AsFloat(a), AsFloat(b))

\* isinstance(v, (int, float, Decimal))
IsNumberInstance(v) == v.k \in {"num", "bool", "irr", "unmodelled"}

RECURSIVE SumFrom(_, _, _)
SumFrom(args, i, total) ==
    IF i > Len(args) THEN total
    ELSE LET arg == args[i]
             \* total += to_number(arg) inside try/except ValueErrorExcel
             Added(r) == IF r.st = "val" THEN padd(total, r.v) ELSE total
         IN SumFrom(args, i + 1,
                    IF arg.k = "list" THEN padd(total, SumFrom(arg.items, 1, PyInt(0)))
                    ELSE Added(to_number(arg)))

func_sum(args) == Val(SumFrom(args, 1, PyInt(0)))

\* the values list built by func_average, func_max and func_min: the direct
\* number elements of a sequence argument, to_number of a scalar argument
RECURSIVE NumberValues(_, _)
NumberValues(args, i) ==
    IF i > Len(args) THEN <<>>
    ELSE LET arg == args[i]
             Appended(r) == IF r.st = "val" THEN <<r.v>> ELSE <<>>
         IN (IF arg.k = "list" THEN SelectSeq(arg.items, IsNumberInstance)
             ELSE Appended(to_number(arg))) \o NumberValues(args, i + 1)

\* sum(values) of numbers
RECURSIVE sum(_, _, _)
sum(values, i, total) == IF i > Len(values) THEN total ELSE sum(values, i + 1, padd(total, values[i]))

func_average(args) ==
    LET Quotient(t, n) == Val(IF Opaque(t) THEN t ELSE PyFloat(t.n, t.d * n))
        Average(values) ==
            IF values = <<>> THEN Exc("DivisionByZero")
            ELSE Quotient(sum(values, 1, PyInt(0)), Len(values))
    IN Average(NumberValues(args, 1))

RECURSIVE CountFrom(_, _)
CountFrom(args, i) ==
    IF i > Len(args) THEN 0
    ELSE LET arg == args[i] IN
         (IF arg.k = "list" THEN CountFrom(arg.items, 1)
          ELSE IF to_number(arg).st = "val" THEN 1 ELSE 0) + CountFrom(args, i + 1)

func_count(args) == Val(PyInt(CountFrom(args, 1)))

RECURSIVE CountaFrom(_, _)
CountaFrom(args, i) ==
    IF i > Len(args) THEN 0
    ELSE LET arg == args[i] IN
         (IF arg.k = "list" THEN CountaFrom(arg.items, 1)
          ELSE IF arg.k = "none" \/ (arg.k = "str" /\ arg.s = <<>>) THEN 0 ELSE 1)
         + CountaFrom(args, i + 1)

func_counta(args) == Val(PyInt(CountaFrom(args, 1)))

\* max(values) / min(values): the first element that no other one exceeds
func_max(args) ==
    LET max(values) ==
            IF values = <<>> THEN Val(PyInt(0))
            ELSE IF \E i \in 1..Len(values) : Opaque(values[i]) THEN Val(Unmodelled)
            ELSE Val(values[CHOOSE i \in 1..Len(values) :
                         /\ \A j \in 1..Len(values) : ~plt(values[i], values[j])
                         /\ \A j \in 1..(i - 1) : plt(values[j], values[i])])
    IN max(NumberValues(args, 1))

func_min(args) ==
    LET min(values) ==
            IF values = <<>> THEN Val(PyInt(0))
            ELSE IF \E i \in 1..Len(values) : Opaque(values[i]) THEN Val(Unmodelled)
            ELSE Val(values[CHOOSE i \in 1..Len(values) :
                         /\ \A j \in 1..Len(values) : ~plt(values[j], values[i])
                         /\ \A j \in 1..(i - 1) : plt(values[i], values[j])])
    IN min(NumberValues(args, 1))

func_abs(args) ==
    LET abs(r) ==
            IF r.st = "exc" THEN r
            ELSE IF Opaque(r.v) THEN r
            ELSE IF r.v.k = "bool" THEN Val(PyInt(IF r.v.b THEN 1 ELSE 0))
            ELSE Val([r.v EXCEPT !.n = Abs(r.v.n)])
    IN IF Len(args) # 1 THEN Exc("TypeError") ELSE abs(to_number(args[1]))

\* the largest root searched for an exact square
MaxRoot == 64

func_sqrt(args) ==
    LET sqrt(x) ==
            IF x.n < 0 THEN Exc("Num")
            ELSE IF \E a \in 0..MaxRoot, b \in 1..MaxRoot : a * a = x.n /\ b * b = x.d
                 THEN Val(PyFloat(CHOOSE a \in 0..MaxRoot : a * a = x.n,
                                  CHOOSE b \in 1..MaxRoot : b * b = x.d))
                 ELSE Val(Irr)
        Root(r) ==
            IF r.st = "exc" THEN r
            ELSE IF Opaque(r.v) THEN r
            ELSE sqrt(AsFloat(r.v))
    IN IF Len(args) # 1 THEN Exc("TypeError") ELSE Root(to_number(args[1]))

func_pi(args) == IF Len(args) # 0 THEN Exc("TypeError") ELSE Val(Irr)

func_if(args) ==
    IF Len(args) \notin {2, 3} THEN Exc("TypeError")
    ELSE LET false_value == IF Len(args) = 3 THEN args[3] ELSE PyBool(FALSE)
             c == to_boolean(args[1])
         IN IF c.st = "exc" /\ c.e = "Unmodelled" THEN Val(Unmodelled)
            ELSE IF c.st = "val" /\ c.v THEN Val(args[2]) ELSE Val(false_value)

RECURSIVE func_and(_)
func_and(args) ==
    IF args = <<>> THEN Val(PyBool(TRUE))
    ELSE LET c == to_boolean(args[1]) IN
         IF c.st = "exc" THEN c
         ELSE IF ~c.v THEN Val(PyBool(FALSE))
         ELSE func_and(Tail(args))

RECURSIVE func_or(_)
func_or(args) ==
    IF args = <<>> THEN Val(PyBool(FALSE))
    ELSE LET c == to_boolean(args[1]) IN
         IF c.st = "exc" THEN c
         ELSE IF c.v THEN Val(PyBool(TRUE))
         ELSE func_or(Tail(args))

func_not(args) ==
    IF Len(args) # 1 THEN Exc("TypeError")
    ELSE LET c == to_boolean(args[1]) IN
         IF c.st = "exc" THEN c ELSE Val(PyBool(~c.v))

func_true(args) == IF Len(args) # 0 THEN Exc("TypeError") ELSE Val(PyBool(TRUE))
func_false(args) == IF Len(args) # 0 THEN Exc("TypeError") ELSE Val(PyBool(FALSE))

\* the names registered in BUILTIN_FUNCTIONS (functions.py 387-433)
BUILTIN_FUNCTIONS ==
    {<<"A","B","S">>, <<"S","U","M">>, <<"A","V","E","R","A","G","E">>, <<"C","O","U","N","T">>,
      <<"C","O","U","N","T","A">>, <<"M","A","X">>, <<"M","I","N">>, <<"R","O","U","N","D">>,
      <<"P","O","W","E","R">>, <<"S","Q","R","T">>, <<"E","X","P">>, <<"L","N">>,
      <<"L","O","G","1","0">>, <<"S","I","N">>, <<"C","O","S">>, <<"T","A","N">>,
      <<"P","I">>, <<"I","F">>, <<"A","N","D">>, <<"O","R">>,
      <<"N","O","T">>, <<"T","R","U","E">>, <<"F","A","L","S","E">>, <<"C","O","N","C","A","T","E","N","A","T","E">>,
      <<"L","E","N">>, <<"L","E","F","T">>, <<"R","I","G","H","T">>, <<"M","I","D">>,
      <<"U","P","P","E","R">>, <<"L","O","W","E","R">>, <<"T","R","I","M">>, <<"T","O","D","A","Y">>,
      <<"N","O","W">>, <<"Y","E","A","R">>, <<"M","O","N","T","H">>, <<"D","A","Y">> }

\* BUILTIN_FUNCTIONS[func_name](*args) for the functions modelled here; the
\* other registered functions yield a value the model does not compute
CallBuiltin(func_name, args) ==
    CASE func_name = <<"A","B","S">> -> func_abs(args)
      [] func_name = <<"S","U","M">> -> func_sum(args)
      [] func_name = <<"A","V","E","R","A","G","E">> -> func_average(args)
      [] func_name = <<"C","O","U","N","T">> -> func_count(args)
      [] func_name = <<"C","O","U","N","T","A">> -> func_counta(args)
      [] func_name = <<"M","A","X">> -> func_max(args)
      [] func_name = <<"M","I","N">> -> func_min(args)
      [] func_name = <<"S","Q","R","T">> -> func_sqrt(args)
      [] func_name = <<"P","I">> -> func_pi(args)
      [] func_name = <<"I","F">> -> func_if(args)
      [] func_name = <<"A","N","D">> -> func_and(args)
      [] func_name = <<"O","R">> -> func_or(args)
      [] func_name = <<"N","O","T">> -> func_not(args)
      [] func_name = <<"T","R","U","E">> -> func_true(args)
      [] func_name = <<"F","A","L","S","E">> -> func_false(args)
      [] OTHER -> Val(Unmodelled)

\* _call_function with the text of the wrong error for an unknown name
_call_functionValueForUnknown(func_name, args) ==
    LET \* except ExcelError as e: return str(e); except Exception: "#VALUE!"
        Caught(r) ==
            IF r.st = "val" THEN r
            ELSE IF r.e = "Unmodelled" THEN Val(Unmodelled)
            ELSE IF r.e \in ExcelErrorKinds THEN Val(PyStr(ErrorText(r.e)))
            ELSE Val(PyStr(ErrorText("Value")))
    IN IF func_name \in BUILTIN_FUNCTIONS THEN Caught(CallBuiltin(func_name, args))
       ELSE Val(PyStr(ErrorText("Value")))

\* _call_function (evaluator.py 299-311): never raises
_call_function(func_name, args) ==
    LET \* except ExcelError as e: return str(e); except Exception: "#VALUE!"
        Caught(r) ==
            IF r.st = "val" THEN r
            ELSE IF r.e = "Unmodelled" THEN Val(Unmodelled)
            ELSE IF r.e \in ExcelErrorKinds THEN Val(PyStr(ErrorText(r.e)))
            ELSE Val(PyStr(ErrorText("Value")))
    IN IF func_name \in BUILTIN_FUNCTIONS THEN Caught(CallBuiltin(func_name, args))
       ELSE Val(PyStr(ErrorText("Name")))

\* ------------------------------------------------------------------------
\* Worksheet cells (cell.py).  A cell: data_type, value (a Python value) and
\* formula (the _formula attribute: text, or NoFormula when the formula text
\* was only assigned as the value).
\* ------------------------------------------------------------------------
NoneVal == [k |-> "none"]
\* the _formula attribute of a cell without one (None)
NoFormula == <<>>
NoCell == [data_type |-> "absent", value |-> NoneVal, formula |-> NoFormula]
\* infer_data_type (validation.py 35-53): text that starts with "=" is
\* typed formula, text that float() accepts is typed number
infer_data_type(v) ==
    CASE v.k = "none" -> "empty"
      [] v.k = "bool" -> "boolean"
      [] v.k \in {"num", "irr", "unmodelled"} -> "number"
      [] v.k = "datetime" -> "date"
      [] v.k = "str" -> IF v.s # <<>> /\ v.s[1] = "=" THEN "formula"
                       ELSE IF FloatSyntax(v.s) THEN "number"
                       ELSE "string"
      [] OTHER -> "string"
\* Cell.value setter (cell.py 71-79)
ValueCell(v) == [data_type |-> infer_data_type(v), value |-> v, formula |-> NoFormula]
\* Cell.set_formula (cell.py 199-212): _formula and value hold the text
FormulaCell(text) == [data_type |-> "formula", value |-> PyStr(text), formula |-> text]
\* formula text assigned as the value: typed formula, _formula stays None
FormulaValueCell(text) == ValueCell(PyStr(text))

\* Cell.is_formula (cell.py 180-182)
is_formula(cell) == cell.data_type = "formula"

\* worksheet._cells.get((row, col))
GetCell(ws, row, col) == IF <<row, col>> \in DOMAIN ws THEN ws[<<row, col>>] ELSE NoCell

\* column letters -> number (evaluator.py 192-195, 226-231)
RECURSIVE ColNum(_)
ColNum(letters) ==
    IF letters = <<>> THEN 0
    ELSE 26 * ColNum(SubSeq(letters, 1, Len(letters) - 1))
         + (CHOOSE i \in 1..26 : UpperSeq[i] = letters[Len(letters)])

\* _col_num_to_letter (evaluator.py 243-250)
RECURSIVE _col_num_to_letter(_)
_col_num_to_letter(col_num) ==
    IF col_num <= 0 THEN <<>>
    ELSE Append(_col_num_to_letter((col_num - 1) \div 26), UpperSeq[((col_num - 1) % 26) + 1])

\* re.match(r'(\$?)([A-Z]+)(\$?)(\d+)', ref): [ok, col, row] of the longest
\* prefix the groups match
RefMatch(ref) ==
    LET a == IF ref # <<>> /\ ref[1] = "$" THEN 1 ELSE 0
        lettersEnd == CHOOSE e \in a..Len(ref) :
                         /\ AllUpper(SubSeq(ref, a + 1, e))
                         /\ (e = Len(ref) \/ ~IsUpper(ref[e + 1]))
        b == IF lettersEnd < Len(ref) /\ ref[lettersEnd + 1] = "$" THEN 1 ELSE 0
        digitsEnd == CHOOSE e \in (lettersEnd + b)..Len(ref) :
                         /\ AllDigits(SubSeq(ref, lettersEnd + b + 1, e))
                         /\ (e = Len(ref) \/ ~isdigit(ref[e + 1]))
    IN IF lettersEnd > a /\ digitsEnd > lettersEnd + b
       THEN [ok |-> TRUE, col |-> ColNum(SubSeq(ref, a + 1, lettersEnd)),
             row |-> DigitsVal(SubSeq(ref, lettersEnd + b + 1, digitsEnd))]
       ELSE [ok |-> FALSE, col |-> 0, row |-> 0]

Min(a, b) == IF a < b THEN a ELSE b
Max(a, b) == IF a > b THEN a ELSE b

\* the cell references _get_range_values visits, row-major
\* (evaluator.py 216-239)
RangeRefs(range_ref) ==
    LET \* rows r0..r1, columns c0..c1
        Refs(r0, r1, c0, c1) ==
            [i \in 1..((r1 - r0 + 1) * (c1 - c0 + 1)) |->
                _col_num_to_letter(c0 + ((i - 1) % (c1 - c0 + 1)))
                \o Digits(r0 + ((i - 1) \div (c1 - c0 + 1)))]
        Between(s0, e0) ==
            IF ~s0.ok \/ ~e0.ok THEN <<>>
            ELSE Refs(Min(s0.row, e0.row), Max(s0.row, e0.row),
                      Min(s0.col, e0.col), Max(s0.col, e0.col))
        At(c) == Between(RefMatch(SubSeq(range_ref, 1, c - 1)),
                         RefMatch(SubSeq(range_ref, c + 1, Len(range_ref))))
    IN At(IndexOf(range_ref, ":"))

\* ------------------------------------------------------------------------
\* FormulaEvaluator (evaluator.py).  The call stack of one top-level
\* evaluate() is the sequence frames, innermost last.  A frame is one
\* activation of
\*   _evaluate_tokens        kind "tokens": tokens, i (the loop index, 1-based),
\*                           output_queue, operator_stack; is_eval says it is
\*                           the body of an evaluate() call, cell_address is
\*                           that call's address (None if it has none)
\*   _evaluate_function_args kind "args": segs, the argument token lists not
\*                           yet evaluated, and args, the values so far
\*   _get_range_values       kind "range": refs, the references not yet read,
\*                           and values, the values so far
\* A machine state is [frames, stack, res]: stack is _evaluation_stack and
\* res the outcome of the top-level call (NoRes while it runs).
\* ------------------------------------------------------------------------
NoRes == [st |-> "running"]
EmptyText == PyStr(<<>>)

TokensFrame(tokens, is_eval, cell_address) ==
    [kind |-> "tokens", tokens |-> tokens, i |-> 1, output_queue |-> <<>>,
     operator_stack |-> <<>>, is_eval |-> is_eval, cell_address |-> cell_address]
ArgsFrame(segs) == [kind |-> "args", segs |-> segs, args |-> <<>>]
RangeFrame(refs) == [kind |-> "range", refs |-> refs, values |-> <<>>]

Top(frames) == frames[Len(frames)]
Pop(frames) == SubSeq(frames, 1, Len(frames) - 1)
ReplaceTop(frames, fr) == [frames EXCEPT ![Len(frames)] = fr]

\* _find_matching_paren (evaluator.py 252-266): the loop from pos with the
\* current paren_count; yields pos - 1
RECURSIVE MatchParen(_, _, _)
MatchParen(tokens, pos, paren_count) ==
    IF pos <= Len(tokens) /\ paren_count > 0
    THEN LET token == tokens[pos] IN
         MatchParen(tokens, pos + 1,
                    IF token.type = SUBEXPR /\ token.subtype = "OPEN" THEN paren_count + 1
                    ELSE IF token.type = SUBEXPR /\ token.subtype = "CLOSE" THEN paren_count - 1
                    ELSE paren_count)
    ELSE pos - 1
_find_matching_paren(tokens, start_pos) == MatchParen(tokens, start_pos + 1, 1)

\* the argument token lists that _evaluate_function_args evaluates, in
\* order: the non-empty runs between separators at depth 0
\* (evaluator.py 268-297)
RECURSIVE SplitArgs(_, _, _, _)
SplitArgs(tokens, pos, current_arg, paren_depth) ==
    IF pos > Len(tokens) THEN (IF current_arg # <<>> THEN <<current_arg>> ELSE <<>>)
    ELSE LET token == tokens[pos] IN
         IF token.type = ARGUMENT /\ paren_depth = 0
         THEN (IF current_arg # <<>> THEN <<current_arg>> ELSE <<>>)
              \o SplitArgs(tokens, pos + 1, <<>>, paren_depth)
         ELSE SplitArgs(tokens, pos + 1, Append(current_arg, token),
                        IF token.type = SUBEXPR /\ token.subtype = "OPEN" THEN paren_depth + 1
                        ELSE IF token.type = SUBEXPR /\ token.subtype = "CLOSE" THEN paren_depth - 1
                        ELSE paren_depth)

\* op = operator_stack.pop(); right = output_queue.pop() if output_queue
\* else 0; left likewise; append _apply_operator(op, left, right)
\* -> [exc, output_queue]
PopApply(output_queue, op) ==
    LET n == Len(output_queue)
        right == IF n >= 1 THEN output_queue[n] ELSE PyInt(0)
        left == IF n >= 2 THEN output_queue[n - 1] ELSE PyInt(0)
        rest == IF n >= 2 THEN SubSeq(output_queue, 1, n - 2) ELSE <<>>
        Appended(r) ==
            IF r.st = "exc" THEN [exc |-> r.e, output_queue |-> output_queue]
            ELSE [exc |-> None, output_queue |-> Append(rest, r.v)]
    IN Appended(_apply_operator(op.value, left, right))

\* the while loop run for an OPERATOR token (evaluator.py 114-121)
RECURSIVE OperatorLoop(_, _, _)
OperatorLoop(output_queue, operator_stack, token) ==
    IF /\ operator_stack # <<>>
       /\ Top(operator_stack).type = OPERATOR
       /\ _precedence(Top(operator_stack).value) >= _precedence(token.value)
    THEN LET Popped(r) ==
                 IF r.exc # None
                 THEN [exc |-> r.exc, output_queue |-> output_queue, operator_stack |-> operator_stack]
                 ELSE OperatorLoop(r.output_queue, Pop(operator_stack), token)
         IN Popped(PopApply(output_queue, Top(operator_stack)))
    ELSE [exc |-> None, output_queue |-> output_queue, operator_stack |-> operator_stack]

\* the while loop run for a closing parenthesis (evaluator.py 128-134)
RECURSIVE CloseLoop(_, _)
CloseLoop(output_queue, operator_stack) ==
    IF operator_stack # <<>> /\ Top(operator_stack).type # SUBEXPR
    THEN LET Popped(r) ==
                 IF r.exc # None
                 THEN [exc |-> r.exc, output_queue |-> output_queue, operator_stack |-> operator_stack]
                 ELSE CloseLoop(r.output_queue, Pop(operator_stack))
         IN Popped(PopApply(output_queue, Top(operator_stack)))
    ELSE [exc |-> None, output_queue |-> output_queue, operator_stack |-> operator_stack]

\* "Process remaining operators" (evaluator.py 141-147)
RECURSIVE FinalLoop(_, _)
FinalLoop(output_queue, operator_stack) ==
    IF operator_stack = <<>> THEN [exc |-> None, output_queue |-> output_queue]
    ELSE IF Top(operator_stack).type = OPERATOR
    THEN LET Popped(r) ==
                 IF r.exc # None THEN [exc |-> r.exc, output_queue |-> output_queue]
                 ELSE FinalLoop(r.output_queue, Pop(operator_stack))
         IN Popped(PopApply(output_queue, Top(operator_stack)))
    ELSE FinalLoop(output_queue, Pop(operator_stack))

\* a missing cell address (None or "", both falsy) and a missing formula
\* text (None or "", both falsy) are the empty text
NoAddress == <<>>

Machine(frames, stack, res) == [frames |-> frames, stack |-> stack, res |-> res]

\* _evaluate_operand (evaluator.py 151-177) for the operands that need no
\* cell: Val or Exc
_evaluate_operand(token) ==
    CASE token.subtype = NUMBER ->
            LET \* except ValueError: return 0
                Parsed(r) == IF r.st = "exc" THEN Val(PyInt(0)) ELSE r
            IN Parsed(IF ~Contains(token.value, ".") THEN int_of_text(token.value)
                      ELSE float_of_text(token.value))
      [] token.subtype = TEXT -> Val(PyStr(token.value))
      [] token.subtype = LOGICAL -> Val(PyBool(upper(token.value) = <<"T","R","U","E">>))
      [] token.subtype = ERROR -> Exc("Value")
      [] OTHER -> Val(PyStr(token.value))

\* the machine between two stages of one step: what happens next to the
\* innermost frame of frames
\*   act "run":     nothing is pending
\*   act "get":     it calls _get_cell_value(x)
\*   act "deliver": the call it was waiting for returned x
\*   act "return":  it returns x
\*   act "raise":   the exception x propagates out of it
\*   act "raised":  the exception x has left the top-level evaluate()
\*   act "hang":    the tokenizer loops for ever
Pending(act, frames, stack, x) == [act |-> act, frames |-> frames, stack |-> stack, x |-> x]

\* evaluate without the test of lines 49-50: an address already in the set
\* is evaluated again
EnterEvaluateNoCircularCheck(formula, cell_address, stack) ==
    LET body == IF formula # <<>> /\ formula[1] = "=" THEN Tail(formula) ELSE formula
        Tokenized(t) ==
            IF t.exc = "Hang" THEN [act |-> "hang", stack |-> stack \cup {cell_address}]
            ELSE IF t.exc # None
            THEN [act |-> "raise", e |-> IF t.exc \in ExcelErrorKinds THEN t.exc ELSE "Value",
                  stack |-> stack \ {cell_address}]
            ELSE IF t.tokens = <<>>
            THEN [act |-> "return", v |-> EmptyText, stack |-> stack \ {cell_address}]
            ELSE [act |-> "push", frame |-> TokensFrame(t.tokens, TRUE, cell_address),
                  stack |-> IF cell_address # NoAddress THEN stack \cup {cell_address} ELSE stack]
    IN IF formula = <<>> \/ strip(body) = <<>>
       THEN [act |-> "return", v |-> EmptyText, stack |-> stack]
       ELSE Tokenized(Tokenizer(<<"=">> \o body))

\* evaluate without the handler of lines 67-70: an exception of the
\* tokenizer leaves evaluate as it is
EnterEvaluateNoHandler(formula, cell_address, stack) ==
    LET body == IF formula # <<>> /\ formula[1] = "=" THEN Tail(formula) ELSE formula
        Tokenized(t) ==
            IF t.exc = "Hang" THEN [act |-> "hang", stack |-> stack \cup {cell_address}]
            ELSE IF t.exc # None
            THEN [act |-> "raise", e |-> t.exc, stack |-> stack \ {cell_address}]
            ELSE IF t.tokens = <<>>
            THEN [act |-> "return", v |-> EmptyText, stack |-> stack \ {cell_address}]
            ELSE [act |-> "push", frame |-> TokensFrame(t.tokens, TRUE, cell_address),
                  stack |-> IF cell_address # NoAddress THEN stack \cup {cell_address} ELSE stack]
    IN IF formula = <<>> \/ strip(body) = <<>>
       THEN [act |-> "return", v |-> EmptyText, stack |-> stack]
       ELSE IF cell_address # NoAddress /\ cell_address \in stack
       THEN [act |-> "raise", e |-> "Circular", stack |-> stack]
       ELSE Tokenized(Tokenizer(<<"=">> \o body))

\* evaluate (evaluator.py 27-73) up to the call of _evaluate_tokens:
\*   act "return": it returned v without evaluating tokens
\*   act "raise":  it raised e (the finally clause has run)
\*   act "push":   it added cell_address to the set and calls
\*                 _evaluate_tokens(tokens)
\*   act "hang":   the tokenizer loops for ever
EnterEvaluate(formula, cell_address, stack) ==
    LET body == IF formula # <<>> /\ formula[1] = "=" THEN Tail(formula) ELSE formula
        Tokenized(t) ==
            IF t.exc = "Hang" THEN [act |-> "hang", stack |-> stack \cup {cell_address}]
            ELSE IF t.exc # None
            THEN [act |-> "raise", e |-> IF t.exc \in ExcelErrorKinds THEN t.exc ELSE "Value",
                  stack |-> stack \ {cell_address}]
            ELSE IF t.tokens = <<>>
            THEN [act |-> "return", v |-> EmptyText, stack |-> stack \ {cell_address}]
            ELSE [act |-> "push", frame |-> TokensFrame(t.tokens, TRUE, cell_address),
                  stack |-> IF cell_address # NoAddress THEN stack \cup {cell_address} ELSE stack]
    IN IF formula = <<>> \/ strip(body) = <<>>
       THEN [act |-> "return", v |-> EmptyText, stack |-> stack]
       ELSE IF cell_address # NoAddress /\ cell_address \in stack
       THEN [act |-> "raise", e |-> "Circular", stack |-> stack]
       ELSE Tokenized(Tokenizer(<<"=">> \o body))

\* the caller frame (the last of frames) receives the value v of the call
\* it was waiting for
Deliver(frames, stack, v) ==
    IF frames = <<>> THEN Machine(<<>>, stack, Val(v))
    ELSE LET p == Top(frames) IN
         CASE p.kind = "tokens" ->
                 LET token == p.tokens[p.i] IN
                 IF token.type = FUNCTION
                 THEN \* v holds the evaluated arguments (evaluator.py 95-112)
                      LET i_after == IF /\ p.i + 1 <= Len(p.tokens)
                                        /\ p.tokens[p.i + 1].type = SUBEXPR
                                        /\ p.tokens[p.i + 1].subtype = "OPEN"
                                     THEN _find_matching_paren(p.tokens, p.i + 1) + 1
                                     ELSE p.i + 1
                          result == _call_function(token.value, v.items)
                      IN Machine(ReplaceTop(frames, [p EXCEPT !.output_queue = Append(@, result.v),
                                                                !.i = i_after]), stack, NoRes)
                 ELSE Machine(ReplaceTop(frames, [p EXCEPT !.output_queue = Append(@, v),
                                                           !.i = @ + 1]), stack, NoRes)
           [] p.kind = "args" ->
                 Machine(ReplaceTop(frames, [p EXCEPT !.args = Append(@, v)]), stack, NoRes)
           [] p.kind = "range" ->
                 Machine(ReplaceTop(frames, [p EXCEPT !.values = Append(@, v)]), stack, NoRes)

\* the exception e propagates out of the innermost frame: an evaluate()
\* frame turns a non-Excel exception into ValueErrorExcel (67-70) and
\* discards its address (71-73); _get_cell_value, the caller of every
\* nested evaluate(), catches CircularReferenceError (206-207)
RECURSIVE Unwind(_, _, _)
Unwind(frames, stack, e) ==
    IF frames = <<>> THEN Pending("raised", <<>>, stack, e)
    ELSE LET top == Top(frames) IN
         IF top.kind = "tokens" /\ top.is_eval
         THEN LET e2 == IF e \in ExcelErrorKinds THEN e ELSE "Value"
                  stack2 == stack \ {top.cell_address}
              IN IF Len(frames) > 1 /\ e2 = "Circular"
                 THEN Pending("deliver", Pop(frames), stack2, PyStr(ErrorText("Circular")))
                 ELSE Unwind(Pop(frames), stack2, e2)
         ELSE Unwind(Pop(frames), stack, e)

\* Return without the finally clause: the address stays in the set
ReturnNoDiscard(frames, stack, v) == Pending("deliver", Pop(frames), stack, v)

\* the innermost frame returns v; the finally clause of evaluate()
\* discards the address (71-73)
Return(frames, stack, v) ==
    LET top == Top(frames) IN
    Pending("deliver", Pop(frames),
            IF top.kind = "tokens" /\ top.is_eval THEN stack \ {top.cell_address} ELSE stack,
            v)

\* _get_cell_value(cell_ref) (evaluator.py 179-209) called by the innermost
\* frame, which then receives the value
_get_cell_value(ws, frames, stack, cell_ref) ==
    LET Entered(en) ==
            CASE en.act = "return" -> Pending("deliver", frames, en.stack, en.v)
              [] en.act = "raise" ->
                    IF en.e = "Circular"
                    THEN Pending("deliver", frames, en.stack, PyStr(ErrorText("Circular")))
                    ELSE Pending("raise", frames, en.stack, en.e)
              [] en.act = "push" -> Pending("run", Append(frames, en.frame), en.stack, None)
              [] en.act = "hang" -> Pending("hang", frames, en.stack, None)
        Read(cell) ==
            IF cell.data_type = "absent" THEN Pending("deliver", frames, stack, PyInt(0))
            ELSE IF is_formula(cell) THEN Entered(EnterEvaluate(cell.formula, cell_ref, stack))
            ELSE Pending("deliver", frames, stack,
                         IF cell.value.k = "none" THEN PyInt(0) ELSE cell.value)
        Matched(match) ==
            IF ~match.ok THEN Pending("deliver", frames, stack, PyInt(0))
            ELSE Read(GetCell(ws, match.row, match.col))
    IN Matched(RefMatch(cell_ref))

\* one iteration of the while loop of _evaluate_tokens (evaluator.py 85-138),
\* or its exit (141-149)
TokensStep(frames, stack) ==
    LET fr == Top(frames)
        next(f2) == Pending("run", ReplaceTop(frames, [f2 EXCEPT !.i = @ + 1]), stack, None)
        raise(e) == Pending("raise", frames, stack, e)
        Remaining(r) ==
            IF r.exc # None THEN raise(r.exc)
            ELSE Pending("return", frames, stack,
                         IF r.output_queue # <<>> THEN r.output_queue[1] ELSE EmptyText)
        Operand(r) ==
            IF r.st = "exc" THEN raise(r.e)
            ELSE next([fr EXCEPT !.output_queue = Append(@, r.v)])
        Operator(r, token) ==
            IF r.exc # None THEN raise(r.exc)
            ELSE next([fr EXCEPT !.output_queue = r.output_queue,
                                 !.operator_stack = Append(r.operator_stack, token)])
        Close(r) ==
            IF r.exc # None THEN raise(r.exc)
            ELSE next([fr EXCEPT !.output_queue = r.output_queue,
                                 !.operator_stack = IF r.operator_stack # <<>>
                                                    THEN Pop(r.operator_stack) ELSE <<>>])
        Function(args_end) ==
            Pending("run", Append(frames, ArgsFrame(SplitArgs(SubSeq(fr.tokens, fr.i + 2, args_end - 1),
                                                              1, <<>>, 0))), stack, None)
    IN IF fr.i > Len(fr.tokens)
       THEN Remaining(FinalLoop(fr.output_queue, fr.operator_stack))
       ELSE LET token == fr.tokens[fr.i] IN
         CASE token.type = OPERAND /\ token.subtype = REFERENCE ->
                 Pending("get", frames, stack, token.value)
           [] token.type = OPERAND /\ token.subtype = RANGE ->
                 Pending("run", Append(frames, RangeFrame(RangeRefs(token.value))), stack, None)
           [] token.type = OPERAND /\ token.subtype \notin {REFERENCE, RANGE} ->
                 Operand(_evaluate_operand(token))
           [] token.type = FUNCTION ->
                 IF /\ fr.i + 1 <= Len(fr.tokens)
                    /\ fr.tokens[fr.i + 1].type = SUBEXPR
                    /\ fr.tokens[fr.i + 1].subtype = "OPEN"
                 THEN Function(_find_matching_paren(fr.tokens, fr.i + 1))
                 ELSE \* _call_function(func_name, [])
                      Pending("deliver", frames, stack, PyList(<<>>))
           [] token.type = OPERATOR ->
                 Operator(OperatorLoop(fr.output_queue, fr.operator_stack, token), token)
           [] token.type = SUBEXPR /\ token.subtype = "OPEN" ->
                 next([fr EXCEPT !.operator_stack = Append(@, token)])
           [] token.type = SUBEXPR /\ token.subtype = "CLOSE" ->
                 Close(CloseLoop(fr.output_queue, fr.operator_stack))
           [] OTHER -> next(fr)

\* _evaluate_function_args (evaluator.py 268-297): evaluate the next
\* argument, or return the list
ArgsStep(frames, stack) ==
    LET fr == Top(frames) IN
    IF fr.segs = <<>> THEN Pending("return", frames, stack, PyList(fr.args))
    ELSE Pending("run", Append(ReplaceTop(frames, [fr EXCEPT !.segs = Tail(@)]),
                               TokensFrame(Head(fr.segs), FALSE, NoAddress)), stack, None)

\* _get_range_values (evaluator.py 234-241): read the next cell, or return
\* the list
RangeStep(frames, stack) ==
    LET fr == Top(frames) IN
    IF fr.refs = <<>> THEN Pending("return", frames, stack, PyList(fr.values))
    ELSE Pending("get", ReplaceTop(frames, [fr EXCEPT !.refs = Tail(@)]), stack, Head(fr.refs))

\* one step of a running machine: the innermost frame acts, then the cell
\* it asked for is read, a returned value or a raised exception leaves the
\* frames it ends, and the frame that waited receives the value
Step(ws, m) ==
    LET Received(s) ==
            CASE s.act = "deliver" -> Deliver(s.frames, s.stack, s.x)
              [] s.act = "run" -> Machine(s.frames, s.stack, NoRes)
              [] s.act = "raised" -> Machine(<<>>, s.stack, Exc(s.x))
              [] s.act = "hang" -> Machine(s.frames, s.stack, Exc("Hang"))
        Raised(s) == Received(IF s.act = "raise" THEN Unwind(s.frames, s.stack, s.x) ELSE s)
        Returned(s) == Raised(IF s.act = "return" THEN Return(s.frames, s.stack, s.x) ELSE s)
        Got(s) == Returned(IF s.act = "get" THEN _get_cell_value(ws, s.frames, s.stack, s.x) ELSE s)
        Acted(k) ==
            Got(CASE k = "tokens" -> TokensStep(m.frames, m.stack)
                  [] k = "args" -> ArgsStep(m.frames, m.stack)
                  [] k = "range" -> RangeStep(m.frames, m.stack))
    IN Acted(Top(m.frames).kind)

\* a top-level evaluate(formula, cell_address) on an evaluator whose set is
\* stack
Start(formula, cell_address, stack) ==
    LET Entered(en) ==
            CASE en.act = "return" -> Machine(<<>>, en.stack, Val(en.v))
              [] en.act = "raise" -> Machine(<<>>, en.stack, Exc(en.e))
              [] en.act = "push" -> Machine(<<en.frame>>, en.stack, NoRes)
              [] en.act = "hang" -> Machine(<<>>, en.stack, Exc("Hang"))
    IN Entered(EnterEvaluate(formula, cell_address, stack))

RECURSIVE Run(_, _)
Run(ws, m) == IF m.res.st # "running" THEN m ELSE Run(ws, Step(ws, m))

\* evaluate(formula, cell_address) run to completion: the final machine
evaluate(ws, formula, cell_address, stack) == Run(ws, Start(formula, cell_address, stack))

\* ------------------------------------------------------------------------
\* State: one FormulaEvaluator over one worksheet
\* ------------------------------------------------------------------------
VARIABLES
    cells,      \* worksheet._cells: (row, col) -> cell
    frames,     \* the call stack of the running top-level evaluate()
    stack,      \* FormulaEvaluator._evaluation_stack
    res,        \* outcome of the last top-level evaluate() (NoRes while running)
    call,       \* the arguments of the last top-level evaluate()
    steps,      \* the steps the last top-level evaluate() has taken
    input,      \* argument of a pure function under check
    output      \* its result

vars == <<cells, frames, stack, res, call, steps, input, output>>

\* --- bounds --------------------------------------------------------------
\* EvalStep stops at this many frames, and after this many steps of one
\* call (neither is reached by the code as it is)
MaxFrames == 24
MaxSteps == 80

A1 == <<"A", "1">>
B1 == <<"B", "1">>
C1 == <<"C", "1">>

\* contents of cell A1: formulas given with set_formula, or a number
CellChoicesA ==
    {FormulaCell(f) : f \in {<<"=","B","1">>,
                             <<"=","B","1","+","1">>,
                             <<"=","S","U","M","(","B","1",")">>,
                             <<"=","$","B","$","1">>,
                             <<"=","S","U","M","(","A","1",":","B","1",")">>}}
    \cup {ValueCell(PyInt(5))}
\* contents of cell B1: formulas given with set_formula, formula text
\* assigned as the value, or no cell
CellChoicesB ==
    {FormulaCell(f) : f \in {<<"=","A","1">>,
                             <<"=","A","1","+","1">>,
                             <<"=","S","U","M","(","A","1",")">>,
                             <<"=","C","1">>,
                             <<"=","A","0","1">>,
                             <<"=","1","/","0">>}}
    \cup {FormulaValueCell(<<"=","A","1">>), NoCell}
\* contents of cell C1
CellChoicesC ==
    {FormulaCell(f) : f \in {<<"=","A","1">>, <<"=","B","1","+","1">>}} \cup {NoCell}

Grid(a, b, c) == [rc \in {<<1, 1>>, <<1, 2>>, <<1, 3>>} |->
                    IF rc = <<1, 1>> THEN a ELSE IF rc = <<1, 2>> THEN b ELSE c]
Grids == {Grid(a, b, c) : a \in CellChoicesA, b \in CellChoicesB, c \in CellChoicesC}

\* formulas evaluated directly, with or without an address
DirectFormulas ==
    { <<"=","A","1">>,
      <<"=","B","1","+","C","1">>,
      <<"1","E">>,
      <<"=","S","U","M","(","A","1",":","C","1",")">> }

Coord(addr) == LET m == RefMatch(addr) IN <<m.row, m.col>>
Addresses == {A1, B1, C1}

NoCall == [formula |-> <<>>, cell_address |-> NoAddress, own |-> FALSE]
Idle == frames = <<>>

\* no pure function is under check
NoInput == [family |-> "none"]
NoOutput == [st |-> "none"]

MachineInit ==
    /\ frames = <<>>
    /\ stack = {}
    /\ res = NoRes
    /\ call = NoCall
    /\ steps = 0

Init ==
    /\ cells \in Grids
    /\ MachineInit
    /\ input = NoInput
    /\ output = NoOutput

\* a caller invokes evaluate(formula, cell_address) on the idle evaluator
Evaluate(formula, cell_address, own) ==
    /\ Idle
    /\ LET Becomes(m) ==
                /\ frames' = m.frames
                /\ stack' = m.stack
                /\ res' = m.res
       IN Becomes(Start(formula, cell_address, stack))
    /\ call' = [formula |-> formula, cell_address |-> cell_address, own |-> own]
    /\ steps' = 0
    /\ UNCHANGED <<cells, input, output>>

\* a formula cell is evaluated with its own address
\* (Cell._get_basic_formula_result, cell.py 292-297)
EvaluateCell ==
    \E a \in Addresses :
        /\ is_formula(cells[Coord(a)])
        /\ cells[Coord(a)].formula # <<>>
        /\ Evaluate(cells[Coord(a)].formula, a, TRUE)

\* any formula is evaluated, with any address or none
EvaluateDirect ==
    \E f \in DirectFormulas, a \in {NoAddress, A1, C1} : Evaluate(f, a, FALSE)

\* the running evaluation takes its next step
EvalStep ==
    /\ ~Idle
    /\ Len(frames) < MaxFrames
    /\ steps <= MaxSteps
    /\ LET Becomes(m) ==
                /\ frames' = m.frames
                /\ stack' = m.stack
                /\ res' = m.res
       IN Becomes(Step(cells, Machine(frames, stack, res)))
    /\ steps' = steps + 1
    /\ UNCHANGED <<cells, call, input, output>>

Next == EvaluateCell \/ EvaluateDirect \/ EvalStep

Spec == Init /\ [][Next]_vars

\* ------------------------------------------------------------------------
\* Properties of the evaluator over a worksheet (Spec)
\* ------------------------------------------------------------------------
\* the addresses of the evaluate() calls in progress
InProgress == {frames[i].cell_address : i \in {j \in 1..Len(frames) :
                  /\ frames[j].kind = "tokens"
                  /\ frames[j].is_eval
                  /\ frames[j].cell_address # NoAddress}}
\* the number of evaluate() calls in progress that evaluate tokens
NestedEvaluates == Cardinality({j \in 1..Len(frames) :
                      frames[j].kind = "tokens" /\ frames[j].is_eval})

Finished == Idle /\ res.st # "running"

\* C1: the in-progress set holds exactly the addresses of the evaluate()
\* calls in progress, so it is empty whenever no top-level call runs,
\* whether the last one returned a value or raised; and no top-level call
\* ends with the Circular error, whatever calls came before it.
C1_InProgressSetReleased ==
    /\ stack = InProgress
    /\ Idle => stack = {}
    /\ Finished /\ res.st = "exc" => res.e # "Circular"

\* C1 witness: a top-level call with an address has ended with an error
\* and the set is empty
C1_CallWithAddressRaised ==
    /\ Finished
    /\ call.cell_address = A1
    /\ res.st = "exc"
    /\ res.e = "Value"
    /\ stack = {}

\* the references _get_cell_value is called with for a formula: its
\* reference tokens as written, and the cells of its range tokens
RefTexts(formula) ==
    LET tokens == Tokenizer(formula).tokens IN
    UNION {IF tokens[i].type # OPERAND THEN {}
           ELSE IF tokens[i].subtype = REFERENCE THEN {tokens[i].value}
           ELSE IF tokens[i].subtype = RANGE
           THEN {RangeRefs(tokens[i].value)[j] : j \in 1..Len(RangeRefs(tokens[i].value))}
           ELSE {} : i \in 1..Len(tokens)}

\* the cells a formula cell refers to
CellRefs(cell) ==
    IF ~is_formula(cell) \/ cell.formula = NoFormula THEN {}
    ELSE {Coord(r) : r \in RefTexts(cell.formula)}

\* every address an evaluate() call on the worksheet can be given while
\* the last top-level call runs
AddressTexts ==
    {call.cell_address} \cup RefTexts(call.formula)
        \cup UNION {RefTexts(cells[rc].formula) : rc \in DOMAIN cells}

\* the cells reached from the cells of from by following references
RECURSIVE ReachedFrom(_, _, _)
ReachedFrom(ws, from, n) ==
    IF n = 0 THEN from
    ELSE ReachedFrom(ws, from \cup UNION {CellRefs(GetCell(ws, rc[1], rc[2])) : rc \in from}, n - 1)

\* the formula cell at rc lies on a cycle of references
OnCycle(ws, rc) ==
    rc \in ReachedFrom(ws, CellRefs(GetCell(ws, rc[1], rc[2])), Cardinality(DOMAIN ws))

\* the cycle shows in the outcome: the Circular error is raised, or its
\* text #CIRCULAR! is the value
CircularOutcome(r) ==
    \/ r.st = "exc" /\ r.e = "Circular"
    \/ r.st = "val" /\ r.v = PyStr(ErrorText("Circular"))

\* C2 (as the spec states it): whenever a formula cell on a cycle of
\* references has been evaluated with its own address, the outcome is the
\* Circular error, whatever the shape of the formulas on the cycle.
C2_CycleYieldsCircular ==
    (Finished /\ call.own /\ OnCycle(cells, Coord(call.cell_address)))
        => CircularOutcome(res)

\* C3: a top-level evaluate() never holds more nested evaluate() calls than
\* there are addresses written in the formulas at hand, plus one for a
\* top-level call without address, and it ends within MaxSteps steps, never
\* stopped by the cap on the frames: a running call can always take its
\* next step.
C3_EvaluateTerminates ==
    /\ NestedEvaluates <= Cardinality(AddressTexts \ {NoAddress}) + 1
    /\ Len(frames) < MaxFrames
    /\ steps <= MaxSteps

\* C3 witness: on a worksheet whose three formula cells form a cycle, the
\* evaluation of each of them is in progress at once
C3_ThreeNestedOnCycle ==
    /\ NestedEvaluates = 3
    /\ stack = Addresses
    /\ \A a \in Addresses : OnCycle(cells, Coord(a))

\* ------------------------------------------------------------------------
\* The lexer alone: Tokenizer(text) for every text over LexAlphabet of at
\* most MaxLen characters (SpecLex)
\* ------------------------------------------------------------------------
MaxLen == 5
LexAlphabet == {"1", "-", "(", ")", ",", "E", "\""}

Texts(alphabet, n) == UNION {[1..k -> alphabet] : k \in 0..n}

EmptyGrid == Grid(NoCell, NoCell, NoCell)

InitLex ==
    /\ cells = EmptyGrid
    /\ MachineInit
    /\ input \in {[family |-> "text", text |-> t] : t \in Texts(LexAlphabet, MaxLen)}
    /\ output = NoOutput

\* Tokenizer(text) is constructed: the token list, or the exception
Tokenize ==
    /\ output.st = "none"
    /\ LET t == Tokenizer(input.text) IN
       output' = [st |-> "done", exc |-> t.exc, tokens |-> t.tokens]
    /\ UNCHANGED <<cells, frames, stack, res, call, steps, input>>

NextLex == Tokenize

SpecLex == InitLex /\ [][NextLex]_vars

\* a number token that begins with the sign
FoldedMinus(token) ==
    /\ token.type = OPERAND
    /\ token.subtype = NUMBER
    /\ token.value[1] = "-"

\* a token after which a sign is a negation: an operator, an open group,
\* an argument separator
NegationContext(token) ==
    \/ token.type = OPERATOR
    \/ token.type = SUBEXPR /\ token.subtype = "OPEN"
    \/ token.type = ARGUMENT

\* C7 (as the spec states it, the start of the text allowed as well): a
\* number token carries a folded '-' only if it is the first token or the
\* token before it is an operator, an open group or an argument separator.
C7_MinusFoldedOnlyInNegationContext ==
    output.st = "done" =>
        \A i \in 1..Len(output.tokens) :
            FoldedMinus(output.tokens[i]) => (i = 1 \/ NegationContext(output.tokens[i - 1]))

\* C8 (as the spec states it): the lexer raises no exception, whatever the
\* text.
C8_LexerNeverRaises == output.st = "done" => output.exc = None

\* ------------------------------------------------------------------------
\* evaluate(formula) alone, on a fresh evaluator, for formulas of four
\* families (SpecFormula):
\*   text   every text over TextAlphabet of at most MaxText characters
\*   expr   a op1 b op2 c, as written (flat) or with one pair in parentheses
\*   error  a subformula that fails, alone or inside a larger formula
\*   call   a function call NAME(args)
\* ------------------------------------------------------------------------
MaxText == 4
TextAlphabet == {"1", "+", "(", ")", "E", ".", "\"", "@"}

ArithmeticOps == {<<"+">>, <<"-">>, <<"*">>, <<"/">>, <<"^">>}
ComparisonOps == {<<"=">>, <<"<">>, <<">">>, <<"<", "=">>, <<">", "=">>, <<"<", ">">>}
BinaryOps == ArithmeticOps \cup {<<"&">>} \cup ComparisonOps

\* the literals of a, b and of c (small, so that a ^ (b ^ c) stays small)
LeftLiterals == {<<"1">>, <<"2">>, <<"3">>}
LastLiterals == {<<"1">>, <<"2">>}

ExprInputs ==
    {[family |-> "expr", shape |-> "flat", a |-> a, op1 |-> op1, b |-> b, op2 |-> op2, c |-> c] :
        a \in LeftLiterals, b \in LeftLiterals, c \in LastLiterals,
        op1 \in BinaryOps, op2 \in BinaryOps}
    \cup
    {[family |-> "expr", shape |-> sh, a |-> a, op1 |-> op1, b |-> b, op2 |-> op2, c |-> c] :
        sh \in {"left", "right"},
        a \in LeftLiterals, b \in LeftLiterals, c \in LastLiterals,
        op1 \in ArithmeticOps, op2 \in ArithmeticOps}

\* the formula text of an expr input
ExprText(in) ==
    CASE in.shape = "flat" -> in.a \o in.op1 \o in.b \o in.op2 \o in.c
      [] in.shape = "left" -> <<"(">> \o in.a \o in.op1 \o in.b \o <<")">> \o in.op2 \o in.c
      [] in.shape = "right" -> in.a \o in.op1 \o <<"(">> \o in.b \o in.op2 \o in.c \o <<")">>

\* subformulas in which a domain error arises, each with the outcome of the
\* operation that fails in it as the library computes it
ErrorCores ==
    { [text |-> <<"1","/","0">>,
       raised |-> _apply_operator(<<"/">>, PyInt(1), PyInt(0))],
      [text |-> <<"\"","a","\"","+","1">>,
       raised |-> _apply_operator(<<"+">>, PyStr(<<"a">>), PyInt(1))],
      [text |-> <<"S","Q","R","T","(","-","1",")">>,
       raised |-> func_sqrt(<<PyInt(-1)>>)],
      [text |-> <<"A","V","E","R","A","G","E","(",")">>,
       raised |-> func_average(<<>>)],
      [text |-> A1,
       raised |-> _apply_operator(<<"/">>, PyInt(1), PyInt(0))],
      [text |-> B1,
       raised |-> func_sqrt(<<PyInt(-1)>>)] }

\* where the subformula stands: alone, in parentheses, as an operand, as a
\* function argument
ErrorContexts ==
    { [pre |-> <<>>, post |-> <<>>],
      [pre |-> <<"(">>, post |-> <<")">>],
      [pre |-> <<>>, post |-> <<"+","1">>],
      [pre |-> <<"S","U","M","(">>, post |-> <<")">>] }

ErrorInputs ==
    {[family |-> "error", text |-> x.pre \o c.text \o x.post, kind |-> c.raised.e] :
        c \in ErrorCores, x \in ErrorContexts}

\* the worksheet of SpecFormula: A1 and B1 hold formulas that fail
ErrorGrid ==
    Grid(FormulaCell(<<"=","1","/","0">>),
         FormulaCell(<<"=","S","Q","R","T","(","-","1",")">>),
         NoCell)

CallNames ==
    {<<"F","O","O">>, <<"f","o","o">>, <<"S","U","M","X">>, <<"S","U","M">>, <<"A","B","S">>}
CallArgs == {<<>>, <<"1">>, <<"1",",","2">>, <<"C","1">>}
CallInputs ==
    {[family |-> "call", name |-> n, args |-> a] : n \in CallNames, a \in CallArgs}

TextInputs == {[family |-> "text", text |-> t] : t \in Texts(TextAlphabet, MaxText)}

\* the formula text of an input
FormulaText(in) ==
    CASE in.family = "expr" -> ExprText(in)
      [] in.family = "call" -> in.name \o <<"(">> \o in.args \o <<")">>
      [] OTHER -> in.text

InitFormula ==
    /\ cells = ErrorGrid
    /\ MachineInit
    /\ input \in TextInputs \cup ExprInputs \cup ErrorInputs \cup CallInputs
    /\ output = NoOutput

\* FormulaEvaluator(worksheet).evaluate(text): the value, or the exception
EvaluateFormula ==
    /\ output.st = "none"
    /\ output' = [st |-> "done", r |-> evaluate(cells, FormulaText(input), NoAddress, {}).res]
    /\ UNCHANGED <<cells, frames, stack, res, call, steps, input>>

NextFormula == EvaluateFormula

SpecFormula == InitFormula /\ [][NextFormula]_vars

Evaluated == output.st = "done"

\* C4: whatever the formula text, evaluate() ends with a value or with one
\* of the ExcelError kinds; no other exception leaves it.
C4_OnlyExcelErrorsEscape ==
    Evaluated => (output.r.st = "val" \/ output.r.e \in ExcelErrorKinds)

\* C4 witness: a malformed text (an incomplete literal, on which the lexer
\* fails) has been evaluated and the Value error came out
C4_MalformedEvaluated ==
    /\ Evaluated
    /\ input.family = "text"
    /\ input.text = <<"1", "E">>
    /\ output.r = Exc("Value")

\* --- the value of a op1 b op2 c by the rules of arithmetic -----------------
Literal(text) == Val(PyInt(DigitsVal(text)))

\* l op r, where an error of an operand is the outcome
Binary(op, l, r) ==
    IF l.st = "exc" THEN l
    ELSE IF r.st = "exc" THEN r
    ELSE _apply_operator(op, l.v, r.v)

GroupLeft(in) == Binary(in.op2, Binary(in.op1, Literal(in.a), Literal(in.b)), Literal(in.c))
GroupRight(in) == Binary(in.op1, Literal(in.a), Binary(in.op2, Literal(in.b), Literal(in.c)))

\* the value of an expr input when the operators bind by Tier, the left
\* one first among equals
Grouped(in, Tier(_)) ==
    CASE in.shape = "left" -> GroupLeft(in)
      [] in.shape = "right" -> GroupRight(in)
      [] in.shape = "flat" -> IF Tier(in.op1) >= Tier(in.op2) THEN GroupLeft(in) ELSE GroupRight(in)

\* the tiers of arithmetic
StandardTier(op) ==
    CASE op = <<"^">> -> 3
      [] op \in {<<"*">>, <<"/">>} -> 2
      [] op \in {<<"+">>, <<"-">>} -> 1

\* three tiers: the comparisons with + - &
ThreeTiers(op) ==
    CASE op = <<"^">> -> 3
      [] op \in {<<"*">>, <<"/">>} -> 2
      [] op \in {<<"+">>, <<"-">>, <<"&">>} \cup ComparisonOps -> 1

\* four tiers: the comparisons below + - &
FourTiers(op) ==
    CASE op = <<"^">> -> 4
      [] op \in {<<"*">>, <<"/">>} -> 3
      [] op \in {<<"+">>, <<"-">>, <<"&">>} -> 2
      [] op \in ComparisonOps -> 1

\* C5 (as stated): a formula of number literals, + - * / ^ and
\* parentheses evaluates to the value the rules of arithmetic give it:
\* parentheses first, then ^ before * / before + -, the left operator
\* first inside a tier.
C5_StandardArithmetic ==
    (/\ Evaluated
     /\ input.family = "expr"
     /\ input.op1 \in ArithmeticOps
     /\ input.op2 \in ArithmeticOps)
        => output.r = Grouped(input, StandardTier)

\* C6 (as stated): operators at one nesting level bind in three tiers,
\* ^ above * / above + - & and the comparisons, the left one first inside
\* a tier.
C6_ThreeTiers ==
    (Evaluated /\ input.family = "expr" /\ input.shape = "flat")
        => output.r = Grouped(input, ThreeTiers)

\* C6: operators at one nesting level bind in four tiers, ^ above * /
\* above + - & above the comparisons, the left one first inside a tier.
C6_FourTiers ==
    (Evaluated /\ input.family = "expr" /\ input.shape = "flat")
        => output.r = Grouped(input, FourTiers)

\* C6 witness: 1<2+2 has been evaluated: the sum is taken first and the
\* comparison holds
C6_ComparisonAfterSum ==
    /\ Evaluated
    /\ input.family = "expr"
    /\ input.shape = "flat"
    /\ ExprText(input) = <<"1", "<", "2", "+", "2">>
    /\ output.r = Val(PyBool(TRUE))

\* C9 (as stated): a DivisionByZero, Value or Num error that arises inside
\* a formula (in an operator, inside a function, in a function argument,
\* in a referenced formula cell) is the outcome of the top-level
\* evaluate(), as the error of the same kind.
C9_DomainErrorReachesTop ==
    (Evaluated /\ input.family = "error") => output.r = Exc(input.kind)

\* C10: a call of a function whose name is not registered gives the text
\* #NAME? as the value of evaluate(); nothing is raised.
C10_UnknownFunctionGivesNameText ==
    (Evaluated /\ input.family = "call" /\ upper(input.name) \notin BUILTIN_FUNCTIONS)
        => output.r = Val(PyStr(ErrorText("Name")))

\* C10 witness: foo(1,2) has been evaluated and #NAME? is the value
C10_UnknownCalled ==
    /\ Evaluated
    /\ input.family = "call"
    /\ input.name = <<"f", "o", "o">>
    /\ input.args = <<"1", ",", "2">>
    /\ output.r = Val(PyStr(<<"#", "N", "A", "M", "E", "?">>))

\* ---------------------------------------------------------------------
\* Aggregate functions over argument shapes (functions.py 94-186)
\* ---------------------------------------------------------------------

MaxValues == 2

AggregateNames ==
    {<<"S","U","M">>, <<"A","V","E","R","A","G","E">>, <<"C","O","U","N","T">>,
     <<"C","O","U","N","T","A">>, <<"M","A","X">>, <<"M","I","N">>}

\* the scalar values a cell or a literal argument gives an aggregate
AggregateScalars ==
    {PyInt(1), PyInt(3), PyFloat(1, 2), PyBool(TRUE), PyStr(<<"5">>),
     PyStr(<<"x">>), PyStr(<<>>), NoneVal}

ValueLists(n) == UNION {[1..m -> AggregateScalars] : m \in 0..n}

AggregateInputs ==
    {[family |-> "aggregate", name |-> f, values |-> vs] :
        f \in AggregateNames, vs \in ValueLists(MaxValues)}

InitAggregate ==
    /\ cells = EmptyGrid
    /\ MachineInit
    /\ input \in AggregateInputs
    /\ output = NoOutput

\* BUILTIN_FUNCTIONS[name](*values), (values) and ([values]): the same
\* values as separate arguments, as one sequence, and as a sequence
\* inside a sequence
CallAggregate ==
    /\ output.st = "none"
    /\ output' = [st |-> "done",
                  scalars |-> CallBuiltin(input.name, input.values),
                  sequence |-> CallBuiltin(input.name, <<PyList(input.values)>>),
                  nested |-> CallBuiltin(input.name, <<PyList(<<PyList(input.values)>>)>>)]
    /\ UNCHANGED <<cells, frames, stack, res, call, steps, input>>

NextAggregate == CallAggregate

SpecAggregate == InitAggregate /\ [][NextAggregate]_vars

Aggregated == input.family = "aggregate" /\ output.st = "done"

\* C11: each aggregate function gives the same result for the same
\* values passed as separate scalar arguments, as one sequence, or as a
\* sequence nested inside a sequence.
C11_AggregateShapesAgree ==
    Aggregated => /\ output.scalars = output.sequence
                  /\ output.sequence = output.nested

\* ------------------------------------------------------------------------
\* Cell coordinates (utils/coordinates.py)
\* ------------------------------------------------------------------------
\* letters taken without stepping the index down before each division
RECURSIVE column_index_to_letterNoStep(_)
column_index_to_letterNoStep(index) ==
    IF index <= 0 THEN <<>>
    ELSE Append(column_index_to_letterNoStep(index \div 26), UpperSeq[((index - 1) % 26) + 1])

\* column_index_to_letter: 1 -> A, 27 -> AA
RECURSIVE column_index_to_letter(_)
column_index_to_letter(index) ==
    IF index <= 0 THEN <<>>
    ELSE Append(column_index_to_letter((index - 1) \div 26), UpperSeq[((index - 1) % 26) + 1])

\* column_letter_to_index, on letters already upper case
column_letter_to_index(letter) == ColNum(letter)

\* tuple_to_coordinate: (1, 1) -> A1
tuple_to_coordinate(row, column) == column_index_to_letter(column) \o Digits(row)

\* coordinate_to_tuple: re.match(r'^([A-Z]+)(\d+)$', coordinate.upper()),
\* then row >= 1; Val(<<row, col>>) or Exc("InvalidCoordinateError")
coordinate_to_tuple(coordinate) ==
    LET Tuple(row, col) ==
            IF row < 1 THEN Exc("InvalidCoordinateError") ELSE Val(<<row, col>>)
        Match(u) ==
            IF \E e \in 1..(Len(u) - 1) :
                    AllUpper(SubSeq(u, 1, e)) /\ AllDigits(SubSeq(u, e + 1, Len(u)))
            THEN LET e == CHOOSE i \in 1..(Len(u) - 1) :
                              AllUpper(SubSeq(u, 1, i)) /\ AllDigits(SubSeq(u, i + 1, Len(u)))
                 IN Tuple(DigitsVal(SubSeq(u, e + 1, Len(u))),
                          column_letter_to_index(SubSeq(u, 1, e)))
            ELSE Exc("InvalidCoordinateError")
    IN Match(upper(coordinate))

\* ------------------------------------------------------------------------
\* Workbooks (workbook.py, worksheet.py, cell.py).  A workbook is the
\* ordered dict _worksheets: a sequence of [name, cells]; cells is the dict
\* _cells in insertion order: a sequence of [coord, cell] with distinct
\* coordinates.  A cell carries value, data_type, formula (_formula),
\* calculated_value (_calculated_value) and hyperlink (_hyperlink).
\* ------------------------------------------------------------------------
\* Cell.__init__ (cell.py 24-44) without a value
NewCell ==
    [data_type |-> None, value |-> NoneVal, formula |-> NoFormula,
     calculated_value |-> NoneVal, hyperlink |-> NoneVal]

\* cell.value = val (cell.py 71-79)
SetValue(cell, val) == [cell EXCEPT !.value = val, !.data_type = infer_data_type(val)]

\* cell.set_formula(formula, calculated_value) with a calculated value given
\* (cell.py 199-209)
SetFormula(cell, text, calculated_value) ==
    [cell EXCEPT !.formula = text, !.value = PyStr(text), !.data_type = "formula",
                 !.calculated_value = calculated_value]

\* cell.hyperlink = value (cell.py 141-144)
SetHyperlink(cell, value) == [cell EXCEPT !.hyperlink = value]

\* Cell.has_hyperlink (cell.py 256-258)
has_hyperlink(cell) == cell.hyperlink.k = "str" /\ strip(cell.hyperlink.s) # <<>>

\* Cell.calculated_value (cell.py 219-224)
calculated_value(cell) ==
    IF is_formula(cell) /\ cell.calculated_value # NoneVal THEN cell.calculated_value
    ELSE cell.value

Entry(coord, cell) == [coord |-> coord, cell |-> cell]
Worksheet(name, entries) == [name |-> name, cells |-> entries]

\* worksheet._cells.get(coord)
CellAt(entries, coord) ==
    IF \E i \in 1..Len(entries) : entries[i].coord = coord
    THEN entries[CHOOSE i \in 1..Len(entries) : entries[i].coord = coord].cell
    ELSE NewCell

\* worksheet._cells[coord] = cell, at the place of the key or at the end
PutCell(entries, coord, cell) ==
    IF \E i \in 1..Len(entries) : entries[i].coord = coord
    THEN [i \in 1..Len(entries) |-> IF entries[i].coord = coord THEN Entry(coord, cell) ELSE entries[i]]
    ELSE Append(entries, Entry(coord, cell))

\* workbook._worksheets[name] = worksheet
PutSheet(sheets, worksheet) ==
    IF \E i \in 1..Len(sheets) : sheets[i].name = worksheet.name
    THEN [i \in 1..Len(sheets) |-> IF sheets[i].name = worksheet.name THEN worksheet ELSE sheets[i]]
    ELSE Append(sheets, worksheet)

\* ------------------------------------------------------------------------
\* Packages: the entries of the ZIP file in the order written, each a part
\* name and the XML it holds.  A part name is the sequence of the pieces
\* the code joins; an XML part is kept as the elements and attributes the
\* reader looks at.
\* ------------------------------------------------------------------------
Part(path, content) == [path |-> path, content |-> content]

\* zip_file.namelist()
namelist(zip_file) == {zip_file[i].path : i \in 1..Len(zip_file)}

\* zip_file.read(path): the entry written last under the name
ReadPart(zip_file, path) ==
    zip_file[CHOOSE i \in 1..Len(zip_file) :
                /\ zip_file[i].path = path
                /\ \A j \in (i + 1)..Len(zip_file) : zip_file[j].path # path].content

CONTENT_TYPES_PATH == <<"[Content_Types].xml">>
ROOT_RELS_PATH == <<"_rels/", ".rels">>
APP_PATH == <<"docProps/", "app.xml">>
CORE_PATH == <<"docProps/", "core.xml">>
WORKBOOK_PATH == <<"xl/", "workbook.xml">>
WORKBOOK_RELS_PATH == <<"xl/", "_rels/", "workbook.xml", ".rels">>
SHARED_STRINGS_PATH == <<"xl/", "sharedStrings.xml">>
STYLES_PATH == <<"xl/", "styles.xml">>
THEME_PATH == <<"xl/", "theme/", "theme1.xml">>
\* f"xl/worksheets/sheet{sheet_id}.xml", sheet_id as text
SheetPath(sheet_id) == <<"xl/", "worksheets/", "sheet">> \o sheet_id \o <<".xml">>
\* f"xl/worksheets/_rels/sheet{sheet_id}.xml.rels"
SheetRelsPath(sheet_id) ==
    <<"xl/", "worksheets/", "_rels/", "sheet">> \o sheet_id \o <<".xml", ".rels">>
\* f"worksheets/sheet{idx}.xml"
SheetTarget(sheet_id) == <<"worksheets/", "sheet">> \o sheet_id \o <<".xml">>
\* f"rId{idx}"
RelId(idx) == <<"rId">> \o Digits(idx)

Relationship(id, type, target, external) ==
    [Id |-> id, Type |-> type, Target |-> target, External |-> external]
\* a <c> element: attributes r and t, the text of <v>, <f> and <is><t>;
\* NoneVal where the attribute or the element is absent
CellElem(r, t, v, f, is) == [r |-> r, t |-> t, v |-> v, f |-> f, is |-> is]

\* ------------------------------------------------------------------------
\* XlsxWriter (io/xlsx/writer.py)
\* ------------------------------------------------------------------------
\* the cells of every worksheet, in the order of workbook._worksheets and
\* of each _cells
RECURSIVE AllEntries(_, _)
AllEntries(workbook, i) ==
    IF i > Len(workbook) THEN <<>> ELSE workbook[i].cells \o AllEntries(workbook, i + 1)

\* a pool that takes the text of every text cell, repeated or not
RECURSIVE StringsFromNoDedup(_, _, _)
StringsFromNoDedup(entries, i, string_list) ==
    IF i > Len(entries) THEN string_list
    ELSE StringsFromNoDedup(entries, i + 1,
            IF /\ entries[i].cell.value.k = "str"
               /\ ~is_formula(entries[i].cell)
            THEN Append(string_list, entries[i].cell.value.s)
            ELSE string_list)

\* _build_shared_strings: the texts of the non-formula text cells, each
\* once, at its index + 1
RECURSIVE StringsFrom(_, _, _)
StringsFrom(entries, i, string_list) ==
    IF i > Len(entries) THEN string_list
    ELSE StringsFrom(entries, i + 1,
            IF /\ entries[i].cell.value.k = "str"
               /\ ~is_formula(entries[i].cell)
               /\ ~Contains(string_list, entries[i].cell.value.s)
            THEN Append(string_list, entries[i].cell.value.s)
            ELSE string_list)
_build_shared_strings(workbook) == StringsFrom(AllEntries(workbook, 1), 1, <<>>)

\* str(shared_strings[value])
StringIndex(shared_strings, value) == Digits(IndexOf(shared_strings, value) - 1)

\* _get_fallback_formula_value, for the formula texts of the model: an
\* aggregate call gives 0, TRUE and FALSE their value, anything else that
\* is not plain arithmetic 0
StartsWith(s, prefix) == Len(s) >= Len(prefix) /\ SubSeq(s, 1, Len(prefix)) = prefix
_get_fallback_formula_value(formula) ==
    LET Fallback(u) ==
            IF \E p \in {<<"S","U","M">>, <<"C","O","U","N","T">>, <<"A","V","E","R","A","G","E">>,
                         <<"M","A","X">>, <<"M","I","N">>} : StartsWith(u, p) THEN PyInt(0)
            ELSE IF StartsWith(u, <<"N","O","W">>) \/ StartsWith(u, <<"T","O","D","A","Y">>)
                 THEN PyStr(<<"2","0","2","4","-","0","1","-","0","1">>)
            ELSE IF StartsWith(u, <<"T","R","U","E">>) THEN PyBool(TRUE)
            ELSE IF StartsWith(u, <<"F","A","L","S","E">>) THEN PyBool(FALSE)
            ELSE IF StartsWith(u, <<"C","O","N","C","A","T","E","N","A","T","E">>)
                    \/ StartsWith(u, <<"T","E","X","T">>) THEN PyStr(<<>>)
            ELSE IF \A i \in 1..Len(u) : isdigit(u[i]) \/ u[i] \in {"+", "-", "*", "/", ".", "(", ")", " "}
                 THEN Unmodelled
            ELSE PyInt(0)
        Stripped(u) == Fallback(IF StartsWith(u, <<"=">>) THEN Tail(u) ELSE u)
    IN Stripped(strip(upper(formula)))

\* the value written for a formula cell (writer.py 512-519)
CachedValue(cell) ==
    IF cell.calculated_value # NoneVal THEN cell.calculated_value
    ELSE IF calculated_value(cell) # NoneVal THEN calculated_value(cell)
    ELSE _get_fallback_formula_value(str(cell.value))

\* _write_cell: the <c> element of a cell
_write_cell(coordinate, cell, shared_strings) ==
    LET Formula(f, calc_value) ==
            CASE calc_value.k = "none" -> CellElem(PyStr(coordinate), NoneVal, NoneVal, f, NoneVal)
              [] calc_value.k = "bool" ->
                    CellElem(PyStr(coordinate), PyStr(<<"b">>),
                             PyStr(IF calc_value.b THEN <<"1">> ELSE <<"0">>), f, NoneVal)
              [] calc_value.k \in {"num", "irr", "unmodelled"} ->
                    CellElem(PyStr(coordinate), NoneVal, PyStr(str(calc_value)), f, NoneVal)
              [] calc_value.k = "str" ->
                    IF Contains(shared_strings, calc_value.s)
                    THEN CellElem(PyStr(coordinate), PyStr(<<"s">>),
                                  PyStr(StringIndex(shared_strings, calc_value.s)), f, NoneVal)
                    ELSE CellElem(PyStr(coordinate), PyStr(<<"s","t","r">>),
                                  PyStr(calc_value.s), f, NoneVal)
              [] OTHER -> CellElem(PyStr(coordinate), NoneVal, PyStr(str(calc_value)), f, NoneVal)
        Write(value) ==
            IF value.k = "str" /\ ~is_formula(cell)
            THEN IF Contains(shared_strings, value.s)
                 THEN CellElem(PyStr(coordinate), PyStr(<<"s">>),
                               PyStr(StringIndex(shared_strings, value.s)), NoneVal, NoneVal)
                 ELSE CellElem(PyStr(coordinate), PyStr(<<"i","n","l","i","n","e","S","t","r">>),
                               NoneVal, NoneVal, PyStr(value.s))
            ELSE IF value.k = "bool"
            THEN CellElem(PyStr(coordinate), PyStr(<<"b">>),
                          PyStr(IF value.b THEN <<"1">> ELSE <<"0">>), NoneVal, NoneVal)
            ELSE IF value.k \in {"num", "irr", "unmodelled"}
            THEN CellElem(PyStr(coordinate), NoneVal, PyStr(str(value)), NoneVal, NoneVal)
            ELSE IF is_formula(cell)
            THEN Formula(PyStr(Tail(str(value))), CachedValue(cell))
            ELSE CellElem(PyStr(coordinate), NoneVal,
                          PyStr(IF value.k = "none" THEN <<>> ELSE str(value)), NoneVal, NoneVal)
    IN Write(cell.value)

\* sorted(keys)
RECURSIVE sorted(_)
sorted(keys) ==
    IF keys = {} THEN <<>>
    ELSE LET Rest(m) == <<m>> \o sorted(keys \ {m})
         IN Rest(CHOOSE x \in keys : \A y \in keys : x <= y)

\* _write_worksheet_rels: a relationship per hyperlink cell
_write_worksheet_rels(hyperlinks) ==
    [kind |-> "rels",
     rels |-> [idx \in 1..Len(hyperlinks) |->
                 Relationship(RelId(idx), "hyperlink", hyperlinks[idx].cell.hyperlink.s, TRUE)]]

\* _write_worksheet: the parts written for a worksheet, the relationships
\* part (only with hyperlinks) before the worksheet part.  Rows and the
\* cells of a row are written in sorted order, cells without a value are
\* left out; the hyperlink list follows _cells.
_write_worksheet(worksheet, sheet_id, shared_strings) ==
    LET HasLink(e) == has_hyperlink(e.cell)
        Cols(es, row, cols) ==
            [k \in 1..Len(cols) |->
                _write_cell(tuple_to_coordinate(row, cols[k]), CellAt(es, <<row, cols[k]>>),
                            shared_strings)]
        Row(es, row) ==
            [r |-> row,
             c |-> Cols(es, row, sorted({es[i].coord[2] : i \in {j \in 1..Len(es) :
                                            /\ es[j].coord[1] = row
                                            /\ es[j].cell.value # NoneVal}}))]
        Rows(es, rows) == [k \in 1..Len(rows) |-> Row(es, rows[k])]
        Sheet(es, hyperlinks) ==
            (IF hyperlinks # <<>>
             THEN <<Part(SheetRelsPath(Digits(sheet_id)), _write_worksheet_rels(hyperlinks))>>
             ELSE <<>>)
            \o <<Part(SheetPath(Digits(sheet_id)),
                      [kind |-> "worksheet",
                       rows |-> Rows(es, sorted({es[i].coord[1] : i \in 1..Len(es)})),
                       hyperlinks |-> [idx \in 1..Len(hyperlinks) |->
                            [ref |-> PyStr(tuple_to_coordinate(hyperlinks[idx].coord[1],
                                                               hyperlinks[idx].coord[2])),
                             id |-> PyStr(RelId(idx))]]])>>
        Links(es) == Sheet(es, SelectSeq(es, HasLink))
    IN Links(worksheet.cells)

\* _write_content_types: the part names of the Override elements
_write_content_types(workbook, has_shared_strings) ==
    [kind |-> "types",
     overrides |-> <<<<"/">> \o WORKBOOK_PATH, <<"/">> \o STYLES_PATH, <<"/">> \o THEME_PATH,
                     <<"/">> \o CORE_PATH, <<"/">> \o APP_PATH>>
                   \o (IF has_shared_strings THEN <<<<"/">> \o SHARED_STRINGS_PATH>> ELSE <<>>)
                   \o [idx \in 1..Len(workbook) |-> <<"/">> \o SheetPath(Digits(idx))]]

\* _write_rels with XlsxTemplates.get_rels_data (constants.py 306-312)
_write_rels ==
    [kind |-> "rels",
     rels |-> <<Relationship(RelId(1), "officeDocument", WORKBOOK_PATH, FALSE),
                Relationship(RelId(2), "core-properties", CORE_PATH, FALSE),
                Relationship(RelId(3), "extended-properties", APP_PATH, FALSE)>>]

\* a writer that declares every sheet with the relationship ID of the first
_write_workbook_xmlFirstRelId(workbook) ==
    [kind |-> "workbook",
     sheets |-> [idx \in 1..Len(workbook) |->
                    [name |-> workbook[idx].name, sheetId |-> Digits(idx),
                     id |-> PyStr(RelId(1))]]]

\* _write_workbook_xml: a <sheet> per worksheet
_write_workbook_xml(workbook) ==
    [kind |-> "workbook",
     sheets |-> [idx \in 1..Len(workbook) |->
                    [name |-> workbook[idx].name, sheetId |-> Digits(idx),
                     id |-> PyStr(RelId(idx))]]]

\* a writer that always declares the shared-string relationship
_write_workbook_relsAlwaysShared(workbook) ==
    LET n == Len(workbook) IN
    [kind |-> "rels",
     rels |-> [idx \in 1..n |-> Relationship(RelId(idx), "worksheet", SheetTarget(Digits(idx)), FALSE)]
              \o <<Relationship(RelId(n + 1), "styles", <<"styles.xml">>, FALSE),
                   Relationship(RelId(n + 2), "theme", <<"theme/", "theme1.xml">>, FALSE),
                   Relationship(RelId(n + 3), "sharedStrings", <<"sharedStrings.xml">>, FALSE)>>]

\* _write_workbook_rels: worksheets, styles, theme and, with shared
\* strings, the shared-string part
_write_workbook_rels(workbook) ==
    LET n == Len(workbook) IN
    [kind |-> "rels",
     rels |-> [idx \in 1..n |-> Relationship(RelId(idx), "worksheet", SheetTarget(Digits(idx)), FALSE)]
              \o <<Relationship(RelId(n + 1), "styles", <<"styles.xml">>, FALSE),
                   Relationship(RelId(n + 2), "theme", <<"theme/", "theme1.xml">>, FALSE)>>
              \o (IF _build_shared_strings(workbook) # <<>>
                  THEN <<Relationship(RelId(n + 3), "sharedStrings", <<"sharedStrings.xml">>, FALSE)>>
                  ELSE <<>>)]

\* _write_shared_strings: an <si><t> per string, by index
_write_shared_strings(shared_strings) ==
    [kind |-> "sst", si |-> [i \in 1..Len(shared_strings) |-> PyStr(shared_strings[i])]]

RECURSIVE WriteWorksheets(_, _, _)
WriteWorksheets(workbook, idx, shared_strings) ==
    IF idx > Len(workbook) THEN <<>>
    ELSE _write_worksheet(workbook[idx], idx, shared_strings)
         \o WriteWorksheets(workbook, idx + 1, shared_strings)

\* save_workbook: the entries written to the ZIP file
save_workbook(workbook) ==
    LET Written(shared_strings) ==
            <<Part(CONTENT_TYPES_PATH, _write_content_types(workbook, shared_strings # <<>>)),
              Part(ROOT_RELS_PATH, _write_rels),
              Part(APP_PATH, [kind |-> "app"]),
              Part(CORE_PATH, [kind |-> "core"]),
              Part(WORKBOOK_PATH, _write_workbook_xml(workbook)),
              Part(WORKBOOK_RELS_PATH, _write_workbook_rels(workbook))>>
            \o (IF shared_strings # <<>>
                THEN <<Part(SHARED_STRINGS_PATH, _write_shared_strings(shared_strings))>>
                ELSE <<>>)
            \o <<Part(STYLES_PATH, [kind |-> "styles"]), Part(THEME_PATH, [kind |-> "theme"])>>
            \o WriteWorksheets(workbook, 1, shared_strings)
    IN Written(_build_shared_strings(workbook))

\* ------------------------------------------------------------------------
\* XlsxReader (io/xlsx/reader.py)
\* ------------------------------------------------------------------------
\* bool(text) of an attribute or of element text: present and not empty
Truthy(a) == a.k = "str" /\ a.s # <<>>

\* _read_shared_strings: the text of each <si><t>, "" without text; no
\* part, no strings
_read_shared_strings(zip_file) ==
    LET Strings(si) == [i \in 1..Len(si) |-> IF si[i].k = "str" THEN si[i].s ELSE <<>>]
    IN IF SHARED_STRINGS_PATH \in namelist(zip_file)
       THEN Strings(ReadPart(zip_file, SHARED_STRINGS_PATH).si)
       ELSE <<>>

\* _read_workbook_structure: the <sheet> elements, or FileFormatError
\* without the workbook part
_read_workbook_structure(zip_file) ==
    IF WORKBOOK_PATH \in namelist(zip_file)
    THEN Val(ReadPart(zip_file, WORKBOOK_PATH).sheets)
    ELSE Exc("FileFormatError")

\* the dict Id -> Target of a relationships part: the entries with both
\* attributes, a later one replacing an earlier one of the same Id
Relationships(rels) ==
    LET Defined(r) == r.Id # <<>> /\ r.Target # <<>> IN SelectSeq(rels, Defined)
HasRel(relationships, rel_id) == \E i \in 1..Len(relationships) : relationships[i].Id = rel_id
RelTarget(relationships, rel_id) ==
    relationships[CHOOSE i \in 1..Len(relationships) :
                     /\ relationships[i].Id = rel_id
                     /\ \A j \in (i + 1)..Len(relationships) : relationships[j].Id # rel_id].Target

\* _read_workbook_relationships: no part, no relationships
_read_workbook_relationships(zip_file) ==
    IF WORKBOOK_RELS_PATH \in namelist(zip_file)
    THEN Relationships(ReadPart(zip_file, WORKBOOK_RELS_PATH).rels)
    ELSE <<>>

\* _parse_cell_value
_parse_cell_value(raw_value, cell_type, shared_strings) ==
    LET Indexed(r) ==
            IF r.st = "val" /\ 0 <= r.v.n /\ r.v.n < Len(shared_strings)
            THEN PyStr(shared_strings[r.v.n + 1]) ELSE PyStr(raw_value)
        Number(r) == IF r.st = "val" THEN r.v ELSE PyStr(raw_value)
    IN CASE cell_type = <<"s">> -> Indexed(int_of_text(raw_value))
         [] cell_type = <<"n">> ->
                Number(IF Contains(raw_value, ".") \/ Contains(raw_value, "e") \/ Contains(raw_value, "E")
                       THEN float_of_text(raw_value) ELSE int_of_text(raw_value))
         [] cell_type = <<"b">> -> PyBool(raw_value = <<"1">>)
         [] OTHER -> PyStr(raw_value)

\* the body of the loop of _process_sheet_data for one <c> element:
\* Val(the cells) or Exc(the exception that leaves the loop)
ProcessCell(entries, cell_elem, shared_strings) ==
    LET WithValue(coord, cell) ==
            IF cell_elem.v.k = "str"
            THEN IF is_formula(cell)
                 THEN [cell EXCEPT !.calculated_value =
                          _parse_cell_value(cell_elem.v.s,
                                            IF cell_elem.t.k = "str" THEN cell_elem.t.s ELSE <<"n">>,
                                            shared_strings)]
                 ELSE SetValue(cell, _parse_cell_value(cell_elem.v.s,
                                            IF cell_elem.t.k = "str" THEN cell_elem.t.s ELSE <<"n">>,
                                            shared_strings))
            ELSE cell
        WithFormula(coord, cell) ==
            WithValue(coord,
                IF Truthy(cell_elem.f)
                THEN [cell EXCEPT !.formula = IF cell_elem.f.s[1] = "=" THEN cell_elem.f.s
                                              ELSE <<"=">> \o cell_elem.f.s,
                                  !.data_type = "formula",
                                  !.value = PyStr(IF cell_elem.f.s[1] = "=" THEN cell_elem.f.s
                                                  ELSE <<"=">> \o cell_elem.f.s)]
                ELSE cell)
        Put(coord, cell) == Val(PutCell(entries, coord, cell))
        At(coord) == Put(coord, WithFormula(coord, CellAt(entries, coord)))
        Located(t) == IF t.st = "exc" THEN t ELSE At(t.v)
    IN IF ~Truthy(cell_elem.r) THEN Val(entries)
       ELSE Located(coordinate_to_tuple(cell_elem.r.s))

\* the <c> elements of the rows, in document order
RECURSIVE CellElems(_, _)
CellElems(rows, i) == IF i > Len(rows) THEN <<>> ELSE rows[i].c \o CellElems(rows, i + 1)

\* _process_sheet_data: InvalidCoordinateError is none of the exceptions the
\* loop catches (ValueError, TypeError, AttributeError) and leaves it
RECURSIVE ProcessCells(_, _, _, _)
ProcessCells(entries, elems, i, shared_strings) ==
    LET Next1(r) == IF r.st = "exc" THEN r ELSE ProcessCells(r.v, elems, i + 1, shared_strings)
    IN IF i > Len(elems) THEN Val(entries)
       ELSE Next1(ProcessCell(entries, elems[i], shared_strings))
_process_sheet_data(entries, rows, shared_strings) ==
    ProcessCells(entries, CellElems(rows, 1), 1, shared_strings)

\* _process_hyperlinks: the target of each hyperlink whose relationship is
\* defined, set on its cell; nothing without the relationships part
RECURSIVE ProcessLinks(_, _, _, _)
ProcessLinks(entries, hyperlinks, i, relationships) ==
    LET Set(coord, cell) ==
            ProcessLinks(PutCell(entries, coord, cell), hyperlinks, i + 1, relationships)
        Located(t, target) ==
            IF t.st = "exc" THEN t
            ELSE Set(t.v, SetHyperlink(CellAt(entries, t.v), PyStr(target)))
        Link(h) ==
            IF Truthy(h.ref) /\ Truthy(h.id) /\ HasRel(relationships, h.id.s)
            THEN Located(coordinate_to_tuple(h.ref.s), RelTarget(relationships, h.id.s))
            ELSE ProcessLinks(entries, hyperlinks, i + 1, relationships)
    IN IF i > Len(hyperlinks) THEN Val(entries) ELSE Link(hyperlinks[i])
\* a reader that looks for every worksheet's hyperlink targets in the
\* relationships part of the first worksheet
_process_hyperlinksFirstSheetRels(zip_file, entries, worksheet_root, sheet_id) ==
    IF worksheet_root.hyperlinks = <<>> \/ SheetRelsPath(<<"1">>) \notin namelist(zip_file)
    THEN Val(entries)
    ELSE ProcessLinks(entries, worksheet_root.hyperlinks, 1,
                      Relationships(ReadPart(zip_file, SheetRelsPath(<<"1">>)).rels))

_process_hyperlinks(zip_file, entries, worksheet_root, sheet_id) ==
    IF worksheet_root.hyperlinks = <<>> \/ SheetRelsPath(sheet_id) \notin namelist(zip_file)
    THEN Val(entries)
    ELSE ProcessLinks(entries, worksheet_root.hyperlinks, 1,
                      Relationships(ReadPart(zip_file, SheetRelsPath(sheet_id)).rels))

\* a reader that fills a worksheet whose part is not found from the part
\* of the first worksheet
_load_worksheetFirstSheetFallback(zip_file, workbook, sheet_info, shared_strings, relationships) ==
    LET Loaded(r) ==
            IF r.st = "exc" THEN r
            ELSE Val(PutSheet(workbook, Worksheet(sheet_info.name, r.v)))
        Linked(root, r) ==
            Loaded(IF r.st = "exc" THEN r
                   ELSE _process_hyperlinks(zip_file, r.v, root, sheet_info.sheetId))
        Parsed(root) == Linked(root, _process_sheet_data(<<>>, root.rows, shared_strings))
        Found(sheet_path) ==
            IF sheet_path \notin namelist(zip_file)
            THEN Val(PutSheet(workbook, Worksheet(sheet_info.name, <<>>)))
            ELSE Parsed(ReadPart(zip_file, sheet_path))
        Conventional(sheet_path) ==
            Found(IF sheet_path \notin namelist(zip_file) THEN SheetPath(<<"1">>) ELSE sheet_path)
        Resolved(sheet_path) ==
            Conventional(IF sheet_path = <<>> \/ sheet_path \notin namelist(zip_file)
                         THEN SheetPath(sheet_info.sheetId) ELSE sheet_path)
    IN Resolved(IF Truthy(sheet_info.id) /\ HasRel(relationships, sheet_info.id.s)
                THEN <<"xl/">> \o RelTarget(relationships, sheet_info.id.s)
                ELSE <<>>)

\* _load_worksheet: the worksheet is registered under its name, then
\* filled from its part: the target of its relationship, else the part
\* named after its sheetId, else nothing
_load_worksheet(zip_file, workbook, sheet_info, shared_strings, relationships) ==
    LET Loaded(r) ==
            IF r.st = "exc" THEN r
            ELSE Val(PutSheet(workbook, Worksheet(sheet_info.name, r.v)))
        Linked(root, r) ==
            Loaded(IF r.st = "exc" THEN r
                   ELSE _process_hyperlinks(zip_file, r.v, root, sheet_info.sheetId))
        Parsed(root) == Linked(root, _process_sheet_data(<<>>, root.rows, shared_strings))
        Found(sheet_path) ==
            IF sheet_path \notin namelist(zip_file)
            THEN Val(PutSheet(workbook, Worksheet(sheet_info.name, <<>>)))
            ELSE Parsed(ReadPart(zip_file, sheet_path))
        Resolved(sheet_path) ==
            Found(IF sheet_path = <<>> \/ sheet_path \notin namelist(zip_file)
                  THEN SheetPath(sheet_info.sheetId) ELSE sheet_path)
    IN Resolved(IF Truthy(sheet_info.id) /\ HasRel(relationships, sheet_info.id.s)
                THEN <<"xl/">> \o RelTarget(relationships, sheet_info.id.s)
                ELSE <<>>)

\* load_workbook: Val(the worksheets) or Exc("FileFormatError"), which
\* every exception raised while loading becomes
RECURSIVE LoadWorksheets(_, _, _, _, _, _)
LoadWorksheets(zip_file, workbook, sheets, i, shared_strings, relationships) ==
    LET Next1(r) ==
            IF r.st = "exc" THEN Exc("FileFormatError")
            ELSE LoadWorksheets(zip_file, r.v, sheets, i + 1, shared_strings, relationships)
    IN IF i > Len(sheets) THEN Val(workbook)
       ELSE Next1(_load_worksheet(zip_file, workbook, sheets[i], shared_strings, relationships))
load_workbook(zip_file) ==
    LET Structure(workbook_data) ==
            IF workbook_data.st = "exc" THEN Exc("FileFormatError")
            ELSE LoadWorksheets(zip_file, <<>>, workbook_data.v, 1,
                                _read_shared_strings(zip_file),
                                _read_workbook_relationships(zip_file))
    IN Structure(_read_workbook_structure(zip_file))

\* ------------------------------------------------------------------------
\* Saving and loading workbooks.  input holds the workbook built through
\* the cell API, output the package written from it and then the outcome
\* of loading that package.
\* ------------------------------------------------------------------------
MaxCells == 2
MaxSheets == 2

\* the sequences of at most n distinct elements of a set
Arrangements(S, n) ==
    UNION {{s \in [1..m -> S] : \A i, j \in 1..m : i # j => s[i] # s[j]} : m \in 0..n}

BookCoords == {<<1, 1>>, <<1, 2>>, <<2, 1>>}

DateTimeText == <<"2","0","2","4","-","0","1","-","0","2"," ","0","3",":","0","4",":","0","5">>
DateText == <<"2","0","2","4","-","0","1","-","0","2">>

\* the values given to cell.value: int, float, bool, str and datetime
\* (formats.py 11); text starting with "=" makes a formula cell
CellValues ==
    {PyInt(7), PyInt(-3), PyFloat(3, 2), PyFloat(2, 1), PyBool(TRUE), PyBool(FALSE),
     PyStr(<<"a">>), PyStr(<<>>), PyStr(<<"1", "2">>), PyDatetime(DateTimeText),
     PyStr(<<"=", "A", "1">>), PyStr(<<"=", "S", "U", "M", "(", "A", "1", ")">>)}

\* the calculated values given to set_formula, or left there by the
\* evaluator (a date by TODAY())
CachedValues ==
    {PyInt(7), PyFloat(3, 2), PyBool(TRUE), PyStr(<<"a">>), PyStr(<<"b">>), PyStr(<<>>),
     PyDatetime(DateText)}

CellStates ==
    {SetValue(NewCell, v) : v \in CellValues}
    \cup {SetFormula(NewCell, <<"=", "A", "1">>, c) : c \in CachedValues}

SheetName(i) == <<"Sheet">> \o Digits(i)

CellBooks ==
    {<<Worksheet(SheetName(1), [i \in 1..Len(at) |-> Entry(at[i], with[i])])>> :
        <<at, with>> \in {p \in Arrangements(BookCoords, MaxCells) \X UNION {[1..m -> CellStates] : m \in 0..MaxCells} :
                            Len(p[1]) = Len(p[2])}}

Book(workbook) == [family |-> "book", book |-> workbook]

InitCells ==
    /\ cells = EmptyGrid
    /\ MachineInit
    /\ input \in {Book(b) : b \in CellBooks}
    /\ output = NoOutput

\* XlsxWriter().save_workbook(workbook, filename)
Save ==
    /\ input.family = "book"
    /\ output.st = "none"
    /\ output' = [st |-> "package", package |-> save_workbook(input.book)]
    /\ UNCHANGED <<cells, frames, stack, res, call, steps, input>>

\* XlsxReader().load_workbook(Workbook(), filename)
Load ==
    /\ output.st = "package"
    /\ output' = [st |-> "loaded", package |-> output.package,
                  loaded |-> load_workbook(output.package)]
    /\ UNCHANGED <<cells, frames, stack, res, call, steps, input>>

NextBook == Save \/ Load

SpecCells == InitCells /\ [][NextBook]_vars

Saved == input.family = "book" /\ output.st \in {"package", "loaded"}
Reloaded == input.family = "book" /\ output.st = "loaded"

HasSheet(workbook, name) == \E i \in 1..Len(workbook) : workbook[i].name = name
SheetNamed(workbook, name) == workbook[CHOOSE i \in 1..Len(workbook) : workbook[i].name = name]
HasCell(entries, coord) == \E i \in 1..Len(entries) : entries[i].coord = coord

\* the cell loaded at the sheet and coordinate of a cell of the workbook
\* saved (a cell without anything when the sheet or the cell is missing)
LoadedCell(name, coord) ==
    IF HasSheet(output.loaded.v, name)
    THEN CellAt(SheetNamed(output.loaded.v, name).cells, coord)
    ELSE NewCell

\* C12: saving a workbook and loading the result gives, for each cell that
\* had a value, a cell at the same sheet and coordinate whose value is
\* equal and of the same runtime kind, for every kind of value a cell can
\* hold.
C12_ValuesRoundTrip ==
    Reloaded =>
        /\ output.loaded.st = "val"
        /\ \A i \in 1..Len(input.book) : \A j \in 1..Len(input.book[i].cells) :
              LET e == input.book[i].cells[j] IN
              e.cell.value # NoneVal => LoadedCell(input.book[i].name, e.coord).value = e.cell.value

\* C13: saving and loading preserves the formula text and the cached value
\* of every formula cell: the loaded cell is a formula cell with the same
\* formula text and a cached value equal, in value and kind, to the one it
\* had when saved.
C13_FormulasRoundTrip ==
    Reloaded =>
        /\ output.loaded.st = "val"
        /\ \A i \in 1..Len(input.book) : \A j \in 1..Len(input.book[i].cells) :
              LET e == input.book[i].cells[j]
                  loaded == LoadedCell(input.book[i].name, e.coord)
              IN is_formula(e.cell) =>
                    /\ is_formula(loaded)
                    /\ loaded.value = e.cell.value
                    /\ calculated_value(loaded) = calculated_value(e.cell)

\* the <c> elements written for worksheet i with reference r
WrittenElems(i, r) ==
    LET At(c) == c.r = PyStr(r)
    IN SelectSeq(CellElems(ReadPart(output.package, SheetPath(Digits(i))).rows, 1), At)

\* the text of <v> for a cached value: 1 or 0 for a boolean, str() for the rest
CachedText(v) == IF v.k = "bool" THEN (IF v.b THEN <<"1">> ELSE <<"0">>) ELSE str(v)

\* C16: every formula cell is written with its formula text and a cached
\* value; when the cell has no cached value, the cached value written is
\* the fallback constant of the writer.
C16_FormulaSerializedWithCachedValue ==
    Saved =>
        \A i \in 1..Len(input.book) : \A j \in 1..Len(input.book[i].cells) :
            LET e == input.book[i].cells[j]
                written == WrittenElems(i, tuple_to_coordinate(e.coord[1], e.coord[2]))
            IN is_formula(e.cell) =>
                  /\ Len(written) = 1
                  /\ written[1].f = PyStr(Tail(e.cell.value.s))
                  /\ written[1].v.k = "str"
                  /\ e.cell.calculated_value = NoneVal =>
                        written[1].v.s = CachedText(_get_fallback_formula_value(e.cell.value.s))

\* ------------------------------------------------------------------------
\* Workbooks of several worksheets with hyperlinks
\* ------------------------------------------------------------------------
LinkCoords == {<<1, 1>>, <<2, 2>>}

\* cells after cell.hyperlink = url and cell.value = text: a hyperlink on a
\* cell without a value, on a text cell, a text cell without one, and a
\* number cell whose hyperlink is blank (has_hyperlink() is false)
LinkCellStates ==
    {SetHyperlink(NewCell, PyStr(<<"u">>)),
     SetHyperlink(SetValue(NewCell, PyStr(<<"a">>)), PyStr(<<"v">>)),
     SetValue(NewCell, PyStr(<<"a">>)),
     SetHyperlink(SetValue(NewCell, PyInt(7)), PyStr(<<" ">>))}

LinkSheets ==
    {[i \in 1..Len(p[1]) |-> Entry(p[1][i], p[2][i])] :
        p \in {q \in Arrangements(LinkCoords, 2) \X UNION {[1..m -> LinkCellStates] : m \in 0..2} :
                Len(q[1]) = Len(q[2])}}

SheetBooks ==
    UNION {{[i \in 1..n |-> Worksheet(SheetName(i), contents[i])] : contents \in [1..n -> LinkSheets]} :
            n \in 1..MaxSheets}

InitSheets ==
    /\ cells = EmptyGrid
    /\ MachineInit
    /\ input \in {Book(b) : b \in SheetBooks}
    /\ output = NoOutput

SpecSheets == InitSheets /\ [][NextBook]_vars

\* C14: after saving and loading, a cell has hyperlink target T if and only
\* if the cell at the same sheet and coordinate had hyperlink target T when
\* saved, for any number of sheets and of hyperlinks per sheet.
C14_HyperlinksRoundTrip ==
    Reloaded =>
        /\ output.loaded.st = "val"
        /\ \A i \in 1..Len(input.book) : \A coord \in LinkCoords : \A T \in {<<"u">>, <<"v">>, <<" ">>} :
              LET HasTarget(cell) == has_hyperlink(cell) /\ cell.hyperlink = PyStr(T)
              IN HasTarget(LoadedCell(input.book[i].name, coord))
                    <=> HasTarget(CellAt(input.book[i].cells, coord))

\* C14 witness: two worksheets were loaded, the first with two hyperlinks
\* entered from the bottom up, the second with one
C14_TwoSheetsLinked ==
    /\ Reloaded
    /\ Len(input.book) = 2
    /\ Len(input.book[1].cells) = 2
    /\ input.book[1].cells[1].coord = <<2, 2>>
    /\ \A j \in 1..2 : has_hyperlink(input.book[1].cells[j].cell)
    /\ input.book[1].cells[1].cell.hyperlink # input.book[1].cells[2].cell.hyperlink
    /\ \E j \in 1..Len(input.book[2].cells) : has_hyperlink(input.book[2].cells[j].cell)
    /\ output.loaded.st = "val"
    /\ LoadedCell(SheetName(1), <<2, 2>>).hyperlink = input.book[1].cells[1].cell.hyperlink
    /\ LoadedCell(SheetName(2), <<1, 1>>).hyperlink = CellAt(input.book[2].cells, <<1, 1>>).hyperlink

\* the relationships held by a part of the package saved
PartRels(path) == ReadPart(output.package, path).rels
DefinesRel(path, rel_id) ==
    /\ path \in namelist(output.package)
    /\ \E k \in 1..Len(PartRels(path)) : PartRels(path)[k].Id = rel_id
\* the part written for worksheet idx of the workbook saved
OwnSheetPart(idx) ==
    LET Last(parts) == parts[Len(parts)].content
    IN Last(_write_worksheet(input.book[idx], idx, _build_shared_strings(input.book)))

\* C19: in every package save produces, every relationship ID referenced
\* from the workbook part or from a worksheet's hyperlink list is defined in
\* the corresponding relationships part, every relationship with an
\* internal target names a part of the package, and every declared sheet
\* resolves to its own worksheet part.
C19_RelationshipsResolve ==
    Saved =>
        LET sheets == ReadPart(output.package, WORKBOOK_PATH).sheets IN
        /\ Len(sheets) = Len(input.book)
        /\ \A i \in 1..Len(sheets) :
              /\ sheets[i].name = input.book[i].name
              /\ DefinesRel(WORKBOOK_RELS_PATH, sheets[i].id.s)
              /\ LET sheet_path == <<"xl/">> \o RelTarget(PartRels(WORKBOOK_RELS_PATH), sheets[i].id.s)
                 IN /\ sheet_path \in namelist(output.package)
                    /\ sheet_path = SheetPath(Digits(i))
                    /\ ReadPart(output.package, sheet_path) = OwnSheetPart(i)
                    /\ \A h \in 1..Len(ReadPart(output.package, sheet_path).hyperlinks) :
                          DefinesRel(SheetRelsPath(sheets[i].sheetId),
                                     ReadPart(output.package, sheet_path).hyperlinks[h].id.s)
        /\ \A k \in 1..Len(PartRels(WORKBOOK_RELS_PATH)) :
              ~PartRels(WORKBOOK_RELS_PATH)[k].External
                 => <<"xl/">> \o PartRels(WORKBOOK_RELS_PATH)[k].Target \in namelist(output.package)
        /\ \A k \in 1..Len(PartRels(ROOT_RELS_PATH)) :
              ~PartRels(ROOT_RELS_PATH)[k].External
                 => PartRels(ROOT_RELS_PATH)[k].Target \in namelist(output.package)

\* C19 witness: a workbook of two worksheets, the second one with a
\* hyperlink and the first with text, has been saved
C19_TwoSheetsSaved ==
    /\ Saved
    /\ Len(input.book) = 2
    /\ \E j \in 1..Len(input.book[2].cells) : has_hyperlink(input.book[2].cells[j].cell)
    /\ \E j \in 1..Len(input.book[1].cells) : input.book[1].cells[j].cell.value = PyStr(<<"a">>)
    /\ SheetRelsPath(<<"2">>) \in namelist(output.package)
    /\ SHARED_STRINGS_PATH \in namelist(output.package)

\* the parts save always writes, the worksheet parts apart
MandatoryParts ==
    {CONTENT_TYPES_PATH, ROOT_RELS_PATH, APP_PATH, CORE_PATH, WORKBOOK_PATH,
     WORKBOOK_RELS_PATH, STYLES_PATH, THEME_PATH}

\* the workbook saved has a text cell that is not a formula cell
HasTextCell ==
    \E i \in 1..Len(input.book) : \E j \in 1..Len(input.book[i].cells) :
        /\ input.book[i].cells[j].cell.value.k = "str"
        /\ ~is_formula(input.book[i].cells[j].cell)

SharedStringsPart == SHARED_STRINGS_PATH \in namelist(output.package)
SharedStringsRel ==
    \E k \in 1..Len(PartRels(WORKBOOK_RELS_PATH)) :
        PartRels(WORKBOOK_RELS_PATH)[k].Target = <<"sharedStrings.xml">>
SharedStringsType ==
    \E k \in 1..Len(ReadPart(output.package, CONTENT_TYPES_PATH).overrides) :
        ReadPart(output.package, CONTENT_TYPES_PATH).overrides[k] = <<"/">> \o SHARED_STRINGS_PATH

\* C20: the shared-string part, its workbook relationship and its
\* content-type entry are all written when the workbook has a non-formula
\* text cell and all left out when it has none; every mandatory part is
\* written in both cases.
C20_SharedStringsAllOrNothing ==
    Saved =>
        /\ HasTextCell => SharedStringsPart /\ SharedStringsRel /\ SharedStringsType
        /\ ~HasTextCell => ~SharedStringsPart /\ ~SharedStringsRel /\ ~SharedStringsType
        /\ MandatoryParts \subseteq namelist(output.package)
        /\ \A i \in 1..Len(input.book) : SheetPath(Digits(i)) \in namelist(output.package)

\* C20 witness: a workbook whose only text is the text of a formula cell,
\* beside a number cell, has been saved without the shared-string part
C20_FormulaOnlySaved ==
    /\ Saved
    /\ Len(input.book[1].cells) = 2
    /\ is_formula(input.book[1].cells[1].cell)
    /\ input.book[1].cells[2].cell.value = PyInt(7)
    /\ ~SharedStringsPart
    /\ MandatoryParts \subseteq namelist(output.package)

\* ------------------------------------------------------------------------
\* Loading packages that another producer wrote.  input describes the
\* package, output holds it and then the outcome of loading it.
\* ------------------------------------------------------------------------
MaxElems == 2

\* the shared-string pool of the packages
Pool == <<<<"p">>, <<"q">>>>

\* cell references the reader accepts
WellFormedRefs == {<<"A", "1">>, <<"b", "2">>}
\* cell references that are no column letters followed by a row >= 1
MalformedRefs == {<<"1", "A">>, <<"A", "0">>}
\* the coordinate a well-formed reference names
RefCoord(ref) == IF ref = <<"A", "1">> THEN <<1, 1>> ELSE <<2, 2>>

\* the content of a <c> element by type code, with the value, formula and
\* cached value its cell has after decoding
Content(code, t, v, f, is, value, formula, cached) ==
    [code |-> code, t |-> t, v |-> v, f |-> f, is |-> is,
     value |-> value, formula |-> formula, cached |-> cached]
TypedContents ==
    {Content("s", PyStr(<<"s">>), PyStr(<<"1">>), NoneVal, NoneVal, PyStr(<<"q">>), NoFormula, NoneVal),
     Content("s-outside", PyStr(<<"s">>), PyStr(<<"5">>), NoneVal, NoneVal, PyStr(<<"5">>), NoFormula, NoneVal),
     Content("n", PyStr(<<"n">>), PyStr(<<"7">>), NoneVal, NoneVal, PyInt(7), NoFormula, NoneVal),
     Content("n", NoneVal, PyStr(<<"2", ".", "5">>), NoneVal, NoneVal, PyFloat(5, 2), NoFormula, NoneVal),
     Content("b", PyStr(<<"b">>), PyStr(<<"1">>), NoneVal, NoneVal, PyBool(TRUE), NoFormula, NoneVal),
     Content("b", PyStr(<<"b">>), PyStr(<<"0">>), NoneVal, NoneVal, PyBool(FALSE), NoFormula, NoneVal),
     Content("inlineStr", PyStr(<<"inlineStr">>), NoneVal, NoneVal, PyStr(<<"i", "n">>),
             PyStr(<<"i", "n">>), NoFormula, NoneVal),
     Content("formula", NoneVal, PyStr(<<"3">>), PyStr(<<"A", "2", "+", "1">>), NoneVal,
             PyStr(<<"=", "A", "2", "+", "1">>), <<"=", "A", "2", "+", "1">>, PyInt(3)),
     Content("formula", PyStr(<<"str">>), PyStr(<<"x">>), PyStr(<<"A", "2">>), NoneVal,
             PyStr(<<"=", "A", "2">>), <<"=", "A", "2">>, PyStr(<<"x">>)),
     Content("formula", PyStr(<<"b">>), PyStr(<<"1">>), PyStr(<<"A", "2", "=", "1">>), NoneVal,
             PyStr(<<"=", "A", "2", "=", "1">>), <<"=", "A", "2", "=", "1">>, PyBool(TRUE))}
PlainContent == Content("n", PyStr(<<"n">>), PyStr(<<"7">>), NoneVal, NoneVal, PyInt(7), NoFormula, NoneVal)

\* the <c> elements of the packages: every content under a well-formed
\* reference, a number under a malformed, an empty and a missing one
TypedElems ==
    {[r |-> PyStr(ref), content |-> c] : ref \in WellFormedRefs, c \in TypedContents}
    \cup {[r |-> PyStr(ref), content |-> PlainContent] : ref \in MalformedRefs}
    \cup {[r |-> PyStr(<<>>), content |-> PlainContent], [r |-> NoneVal, content |-> PlainContent]}

\* how the worksheet part of a declared sheet is to be found
SheetModes == {"relationship", "convention", "dangling", "missing", "undeclared", "unnamed"}
ResolvedModes == {"relationship", "convention", "dangling"}
\* the target of the relationship of sheet i, outside the naming convention
DataTarget(i) == <<"worksheets/", "data">> \o Digits(i) \o <<".xml">>

TypedPackage(elems) == [family |-> "typed", elems |-> elems]
SheetsPackage(modes) == [family |-> "sheets", modes |-> modes]

\* the worksheet part with one row of the elements
RowPart(elems) ==
    [kind |-> "worksheet",
     rows |-> <<[r |-> 1, c |-> [i \in 1..Len(elems) |->
                    CellElem(elems[i].r, elems[i].content.t, elems[i].content.v,
                             elems[i].content.f, elems[i].content.is)]]>>,
     hyperlinks |-> <<>>]

\* the package of one sheet with the elements and the pool
TypedParts(elems) ==
    <<Part(WORKBOOK_PATH, [kind |-> "workbook",
                           sheets |-> <<[name |-> SheetName(1), sheetId |-> Digits(1),
                                         id |-> PyStr(RelId(1))]>>]),
      Part(WORKBOOK_RELS_PATH, [kind |-> "rels",
                                rels |-> <<Relationship(RelId(1), "worksheet", SheetTarget(Digits(1)), FALSE)>>]),
      Part(SHARED_STRINGS_PATH, _write_shared_strings(Pool)),
      Part(SheetPath(Digits(1)), RowPart(elems))>>

\* the worksheet part of sheet i of a package of sheets: the number i in A1
OwnPart(i) ==
    RowPart(<<[r |-> PyStr(<<"A", "1">>),
               content |-> Content("n", NoneVal, PyStr(Digits(i)), NoneVal, NoneVal,
                                   PyInt(i), NoFormula, NoneVal)]>>)

\* the package declaring a sheet per mode
RECURSIVE SheetParts(_, _)
SheetParts(modes, i) ==
    IF i > Len(modes) THEN <<>>
    ELSE (CASE modes[i] = "relationship" -> <<Part(<<"xl/">> \o DataTarget(i), OwnPart(i))>>
            [] modes[i] \in {"convention", "dangling"} -> <<Part(SheetPath(Digits(i)), OwnPart(i))>>
            [] OTHER -> <<>>)
         \o SheetParts(modes, i + 1)
SheetsParts(modes) ==
    LET Declared(i) == modes[i] \in {"relationship", "dangling", "missing"}
        Ids == SelectSeq([i \in 1..Len(modes) |-> i], Declared)
    IN <<Part(WORKBOOK_PATH,
              [kind |-> "workbook",
               sheets |-> [i \in 1..Len(modes) |->
                              [name |-> SheetName(i), sheetId |-> Digits(i),
                               id |-> IF modes[i] \in {"convention", "unnamed"} THEN NoneVal
                                      ELSE PyStr(RelId(i))]]]),
         Part(WORKBOOK_RELS_PATH,
              [kind |-> "rels",
               rels |-> [k \in 1..Len(Ids) |->
                            Relationship(RelId(Ids[k]), "worksheet", DataTarget(Ids[k]), FALSE)]])>>
       \o SheetParts(modes, 1)

PackageOf(described) ==
    IF described.family = "typed" THEN TypedParts(described.elems) ELSE SheetsParts(described.modes)

Packages ==
    {TypedPackage(e) : e \in UNION {[1..n -> TypedElems] : n \in 1..MaxElems}}
    \cup {SheetsPackage(m) : m \in UNION {[1..n -> SheetModes] : n \in 1..MaxSheets}}

InitPackage ==
    /\ cells = EmptyGrid
    /\ MachineInit
    /\ input \in Packages
    /\ output = [st |-> "package", package |-> PackageOf(input)]

NextPackage == Load

SpecPackage == InitPackage /\ [][NextPackage]_vars

\* a package of the family has been loaded
LoadedFamily(family) == input.family = family /\ output.st = "loaded"
\* the cells loaded into the first sheet (none when the load failed)
LoadedEntries ==
    IF output.loaded.st = "val" /\ HasSheet(output.loaded.v, SheetName(1))
    THEN SheetNamed(output.loaded.v, SheetName(1)).cells
    ELSE <<>>
\* element i has a well-formed reference that no other element has
WellFormedOnce(i) ==
    /\ input.elems[i].r.k = "str"
    /\ input.elems[i].r.s \in WellFormedRefs
    /\ \A j \in 1..Len(input.elems) : j # i => input.elems[j].r # input.elems[i].r
\* element i has a reference that is present, not empty and malformed
Malformed(i) == input.elems[i].r.k = "str" /\ input.elems[i].r.s \in MalformedRefs
\* the cell of element i, decoded as its content says
Decoded(i) ==
    LET Same(cell, content) ==
            /\ cell.value = content.value
            /\ cell.formula = content.formula
            /\ cell.calculated_value = content.cached
    IN /\ HasCell(LoadedEntries, RefCoord(input.elems[i].r.s))
       /\ Same(CellAt(LoadedEntries, RefCoord(input.elems[i].r.s)), input.elems[i].content)

\* C15: loading a package whose cell references are all well formed gives
\* every cell the value its type code says: the pool entry at the index of
\* a shared-string cell, the inline text of an inline-string cell, the
\* number of a number cell, the truth value of a boolean cell, and the
\* formula text with the cached result of a formula cell.
C15_CellsDecodedByTypeCode ==
    LoadedFamily("typed") /\ (\A i \in 1..Len(input.elems) : ~Malformed(i)) =>
        /\ output.loaded.st = "val"
        /\ \A i \in 1..Len(input.elems) :
              WellFormedOnce(i) /\ input.elems[i].content.code # "s-outside" => Decoded(i)

\* C17: a cell element with a malformed reference is skipped: the load
\* succeeds and every cell element with a well-formed reference is loaded.
C17_MalformedReferenceSkipped ==
    LoadedFamily("typed") /\ (\E i \in 1..Len(input.elems) : Malformed(i)) =>
        /\ output.loaded.st = "val"
        /\ \A i \in 1..Len(input.elems) :
              WellFormedOnce(i) => HasCell(LoadedEntries, RefCoord(input.elems[i].r.s))

\* sheet i of the package loaded is there under its declared name with
\* the entries
LoadedSheetIs(i, entries) ==
    /\ HasSheet(output.loaded.v, SheetName(i))
    /\ SheetNamed(output.loaded.v, SheetName(i)).cells = entries

\* C18: a declared sheet whose worksheet part is found neither through its
\* relationship nor under the conventional name is loaded as an empty
\* worksheet under its declared name; the load succeeds and every other
\* declared sheet is loaded with the cells of its own part.
C18_UnresolvedSheetLoadedEmpty ==
    LoadedFamily("sheets") =>
        /\ output.loaded.st = "val"
        /\ Len(output.loaded.v) = Len(input.modes)
        /\ \A i \in 1..Len(input.modes) :
              IF input.modes[i] \in ResolvedModes
              THEN LoadedSheetIs(i, <<Entry(<<1, 1>>, SetValue(NewCell, PyInt(i)))>>)
              ELSE LoadedSheetIs(i, <<>>)

\* C18 witness: a package whose first sheet is found under the conventional
\* name and whose second sheet has a relationship to a part that is not
\* there has been loaded, the second sheet empty
C18_MissingPartLoaded ==
    /\ LoadedFamily("sheets")
    /\ input.modes = <<"convention", "missing">>
    /\ output.loaded.st = "val"
    /\ LoadedSheetIs(2, <<>>)
    /\ LoadedSheetIs(1, <<Entry(<<1, 1>>, SetValue(NewCell, PyInt(1)))>>)

\* ------------------------------------------------------------------------
\* Saving workbooks with repeated text.
\* ------------------------------------------------------------------------
\* cells holding one of two texts, a number, and a formula whose cached
\* value is one of the texts
StringCellStates ==
    {SetValue(NewCell, PyStr(<<"T", "o", "t", "a", "l">>)), SetValue(NewCell, PyStr(<<"x">>)),
     SetValue(NewCell, PyInt(7)),
     SetFormula(NewCell, <<"=", "A", "1">>, PyStr(<<"x">>))}

\* three cells on the first sheet and at most one on a second sheet
StringBooks ==
    {<<Worksheet(SheetName(1), <<Entry(<<1, 1>>, s[1]), Entry(<<2, 1>>, s[2]), Entry(<<1, 2>>, s[3])>>)>>
        \o t : s \in [1..3 -> StringCellStates],
               t \in {<<>>} \cup {<<Worksheet(SheetName(2), <<Entry(<<1, 1>>, c)>>)>> : c \in StringCellStates}}

InitStrings ==
    /\ cells = EmptyGrid
    /\ MachineInit
    /\ input \in {Book(b) : b \in StringBooks}
    /\ output = NoOutput

SpecStrings == InitStrings /\ [][NextBook]_vars

\* the texts of the <si> elements of the package saved, none without the part
SavedPool ==
    IF SHARED_STRINGS_PATH \in namelist(output.package)
    THEN [k \in 1..Len(ReadPart(output.package, SHARED_STRINGS_PATH).si) |->
             ReadPart(output.package, SHARED_STRINGS_PATH).si[k].s]
    ELSE <<>>

\* cell j of sheet i of the workbook saved holds text and is no formula
LiteralText(i, j) ==
    /\ input.book[i].cells[j].cell.value.k = "str"
    /\ ~is_formula(input.book[i].cells[j].cell)

\* the <c> element written for cell j of sheet i refers to the pool entry
\* equal to text
RefersTo(i, j, text) ==
    LET Element(elems) ==
            /\ Len(elems) = 1
            /\ elems[1].t = PyStr(<<"s">>)
            /\ \E k \in 1..Len(SavedPool) : elems[1].v = PyStr(Digits(k - 1)) /\ SavedPool[k] = text
    IN Element(WrittenElems(i, tuple_to_coordinate(input.book[i].cells[j].coord[1],
                                                    input.book[i].cells[j].coord[2])))

\* C21: the shared-string pool written holds each distinct literal text
\* once and nothing else, and every non-formula text cell is written with
\* the index of the entry equal to its text.
C21_PoolHoldsEachTextOnce ==
    Saved =>
        /\ \A k, l \in 1..Len(SavedPool) : k # l => SavedPool[k] # SavedPool[l]
        /\ \A k \in 1..Len(SavedPool) :
              \E i \in 1..Len(input.book) : \E j \in 1..Len(input.book[i].cells) :
                  LiteralText(i, j) /\ input.book[i].cells[j].cell.value.s = SavedPool[k]
        /\ \A i \in 1..Len(input.book) : \A j \in 1..Len(input.book[i].cells) :
              LiteralText(i, j) => RefersTo(i, j, input.book[i].cells[j].cell.value.s)

\* C21 witness: a workbook with the text Total in three cells of the first
\* sheet and another text on the second has been saved with two entries
C21_TotalInThreeCells ==
    /\ Saved
    /\ Len(input.book) = 2
    /\ \A j \in 1..3 : input.book[1].cells[j].cell.value = PyStr(<<"T", "o", "t", "a", "l">>)
    /\ LiteralText(2, 1)
    /\ SavedPool = <<<<"T", "o", "t", "a", "l">>, <<"x">>>>
    /\ \A j \in 1..3 : RefersTo(1, j, <<"T", "o", "t", "a", "l">>)

\* ------------------------------------------------------------------------
\* StyleManager (io/xlsx/writer.py) and the styles of cells (style.py)
\* ------------------------------------------------------------------------
\* XlsxConstants.COLOR_MAP
COLOR_MAP ==
    <<[name |-> <<"b", "l", "a", "c", "k">>, rgb |-> <<"0", "0", "0", "0", "0", "0">>],
      [name |-> <<"w", "h", "i", "t", "e">>, rgb |-> <<"F", "F", "F", "F", "F", "F">>],
      [name |-> <<"r", "e", "d">>, rgb |-> <<"F", "F", "0", "0", "0", "0">>],
      [name |-> <<"g", "r", "e", "e", "n">>, rgb |-> <<"0", "0", "F", "F", "0", "0">>],
      [name |-> <<"b", "l", "u", "e">>, rgb |-> <<"0", "0", "0", "0", "F", "F">>],
      [name |-> <<"y", "e", "l", "l", "o", "w">>, rgb |-> <<"F", "F", "F", "F", "0", "0">>],
      [name |-> <<"c", "y", "a", "n">>, rgb |-> <<"0", "0", "F", "F", "F", "F">>],
      [name |-> <<"m", "a", "g", "e", "n", "t", "a">>, rgb |-> <<"F", "F", "0", "0", "F", "F">>],
      [name |-> <<"d", "a", "r", "k", "b", "l", "u", "e">>, rgb |-> <<"0", "0", "0", "0", "8", "0">>],
      [name |-> <<"d", "a", "r", "k", "g", "r", "e", "e", "n">>, rgb |-> <<"0", "0", "8", "0", "0", "0">>],
      [name |-> <<"d", "a", "r", "k", "r", "e", "d">>, rgb |-> <<"8", "0", "0", "0", "0", "0">>],
      [name |-> <<"p", "u", "r", "p", "l", "e">>, rgb |-> <<"8", "0", "0", "0", "8", "0">>],
      [name |-> <<"o", "r", "a", "n", "g", "e">>, rgb |-> <<"F", "F", "A", "5", "0", "0">>],
      [name |-> <<"g", "r", "a", "y">>, rgb |-> <<"8", "0", "8", "0", "8", "0">>],
      [name |-> <<"l", "i", "g", "h", "t", "b", "l", "u", "e">>, rgb |-> <<"A", "D", "D", "8", "E", "6">>],
      [name |-> <<"l", "i", "g", "h", "t", "g", "r", "e", "e", "n">>, rgb |-> <<"9", "0", "E", "E", "9", "0">>],
      [name |-> <<"l", "i", "g", "h", "t", "y", "e", "l", "l", "o", "w">>, rgb |-> <<"F", "F", "F", "F", "E", "0">>],
      [name |-> <<"l", "i", "g", "h", "t", "g", "r", "a", "y">>, rgb |-> <<"D", "3", "D", "3", "D", "3">>],
      [name |-> <<"l", "i", "g", "h", "t", "c", "y", "a", "n">>, rgb |-> <<"E", "0", "F", "F", "F", "F">>],
      [name |-> <<"l", "i", "g", "h", "t", "c", "o", "r", "a", "l">>, rgb |-> <<"F", "0", "8", "0", "8", "0">>],
      [name |-> <<"l", "i", "g", "h", "t", "p", "i", "n", "k">>, rgb |-> <<"F", "F", "B", "6", "C", "1">>],
      [name |-> <<"g", "o", "l", "d">>, rgb |-> <<"F", "F", "D", "7", "0", "0">>],
      [name |-> <<"l", "a", "v", "e", "n", "d", "e", "r">>, rgb |-> <<"E", "6", "E", "6", "F", "A">>]>>

\* XlsxConstants.BUILTIN_NUMBER_FORMATS
BUILTIN_NUMBER_FORMATS ==
    <<[code |-> "General", id |-> 0], [code |-> "0", id |-> 1], [code |-> "0.00", id |-> 2],
      [code |-> "#,##0", id |-> 3], [code |-> "#,##0.00", id |-> 4], [code |-> "0%", id |-> 9],
      [code |-> "0.00%", id |-> 10], [code |-> "mm/dd/yyyy", id |-> 14],
      [code |-> "$#,##0", id |-> 164], [code |-> "$#,##0.00", id |-> 165],
      [code |-> "0.0%", id |-> 166]>>

\* StyleManager._normalize_color
_normalize_color(color) ==
    IF \E i \in 1..Len(COLOR_MAP) : COLOR_MAP[i].name = color
    THEN COLOR_MAP[CHOOSE i \in 1..Len(COLOR_MAP) : COLOR_MAP[i].name = color].rgb
    ELSE IF color # <<>> /\ color[1] = "#" THEN upper(Tail(color))
    ELSE IF Len(color) = 6 THEN upper(color)
    ELSE <<"0", "0", "0", "0", "0", "0">>

\* Font(), Fill(), BorderSide(), Border() and Style() with the attributes
\* the writer reads
Font(bold, color) ==
    [name |-> <<"Calibri">>, size |-> PyInt(11), bold |-> bold, italic |-> FALSE, color |-> color]
Fill(color) == [color |-> color, pattern |-> "none"]
BorderSide(style, color) == [style |-> style, color |-> color]
Border(left) == [_left |-> left, _right |-> NoneVal, _top |-> NoneVal, _bottom |-> NoneVal]
Style(font, fill, border) == [_font |-> font, _fill |-> fill, _border |-> border]

\* str() of a bool
BoolText(b) == IF b THEN <<"True">> ELSE <<"False">>

\* a dict from keys to numbers, as its items in insertion order
HasKey(map, key) == \E i \in 1..Len(map) : map[i].key = key
Lookup(map, key) == map[CHOOSE i \in 1..Len(map) : map[i].key = key].id
Item(key, id) == [key |-> key, id |-> id]

\* StyleManager._font_key, _fill_key and _border_key: the text of the
\* f-string, piece by piece
_font_key(font) ==
    font.name \o <<"|">> \o str(font.size) \o <<"|">> \o BoolText(font.bold) \o <<"|">>
    \o BoolText(font.italic) \o <<"|">> \o font.color
_fill_key(fill) ==
    <<fill.pattern, "|">> \o (IF fill.color.k = "str" THEN fill.color.s ELSE <<"None">>)
_border_key(border) ==
    LET Side(side) ==
            IF side # NoneVal THEN <<side.style, ":">> \o side.color
            ELSE <<"none", ":">> \o <<"b", "l", "a", "c", "k">>
    IN Side(border._left) \o <<"|">> \o Side(border._right) \o <<"|">>
       \o Side(border._top) \o <<"|">> \o Side(border._bottom)

\* XlsxConstants.DEFAULT_FONT, DEFAULT_FILLS, DEFAULT_BORDER and
\* DEFAULT_CELL_FORMAT
DEFAULT_FONT ==
    [name |-> <<"Calibri">>, size |-> PyInt(11), bold |-> FALSE, italic |-> FALSE,
     color |-> <<"0", "0", "0", "0", "0", "0">>]
DEFAULT_FILLS == <<[pattern |-> "none", color |-> NoneVal], [pattern |-> "gray125", color |-> NoneVal]>>
DEFAULT_BORDER ==
    [left |-> NoneVal, left_color |-> NoneVal, right |-> NoneVal, right_color |-> NoneVal,
     top |-> NoneVal, top_color |-> NoneVal, bottom |-> NoneVal, bottom_color |-> NoneVal]
DEFAULT_CELL_FORMAT == [font_id |-> 0, fill_id |-> 0, border_id |-> 0, number_format_id |-> 0]

\* StyleManager(): the tables with the default styles; the key of the
\* default border is the text of four missing sides
StyleManager ==
    [fonts |-> <<DEFAULT_FONT>>,
     fills |-> DEFAULT_FILLS,
     borders |-> <<DEFAULT_BORDER>>,
     number_formats |-> <<>>,
     cell_formats |-> <<DEFAULT_CELL_FORMAT>>,
     font_map |-> <<Item(_font_key(DEFAULT_FONT), 0)>>,
     fill_map |-> <<Item(_fill_key(DEFAULT_FILLS[1]), 0), Item(_fill_key(DEFAULT_FILLS[2]), 1)>>,
     border_map |-> <<Item(<<"None", "|", "None", "|", "None", "|", "None">>, 0)>>,
     format_map |-> <<>>]

\* the outcome of a get_..._id call: the manager after it and the ID
Got(self, id) == [self |-> self, id |-> id]

\* StyleManager.get_font_id
get_font_id(self, font_props) ==
    LET Find(font, key) ==
            IF HasKey(self.font_map, key) THEN Got(self, Lookup(self.font_map, key))
            ELSE Got([self EXCEPT !.font_map = Append(@, Item(key, Len(self.fonts))),
                                  !.fonts = Append(@, font)],
                     Len(self.fonts))
        Keyed(font) == Find(font, _font_key(font))
    IN Keyed([name |-> font_props.name, size |-> font_props.size, bold |-> font_props.bold,
              italic |-> font_props.italic, color |-> _normalize_color(font_props.color)])

\* StyleManager.get_fill_id
get_fill_id(self, fill_props) ==
    LET Find(fill, key) ==
            IF HasKey(self.fill_map, key) THEN Got(self, Lookup(self.fill_map, key))
            ELSE Got([self EXCEPT !.fill_map = Append(@, Item(key, Len(self.fills))),
                                  !.fills = Append(@, fill)],
                     Len(self.fills))
        Keyed(fill) == Find(fill, _fill_key(fill))
    IN Keyed([pattern |-> "solid", color |-> PyStr(_normalize_color(fill_props.color))])

\* StyleManager.get_border_id: the key is made of the border given, with
\* its colors as they are
get_border_id(self, border_props) ==
    LET SideStyle(side) == IF side # NoneVal THEN PyStr(<<side.style>>) ELSE PyStr(<<"none">>)
        SideColor(side) == IF side # NoneVal THEN PyStr(side.color) ELSE PyStr(<<"b", "l", "a", "c", "k">>)
        Find(border, key) ==
            IF HasKey(self.border_map, key) THEN Got(self, Lookup(self.border_map, key))
            ELSE Got([self EXCEPT !.border_map = Append(@, Item(key, Len(self.borders))),
                                  !.borders = Append(@, border)],
                     Len(self.borders))
    IN Find([left |-> SideStyle(border_props._left), left_color |-> SideColor(border_props._left),
             right |-> SideStyle(border_props._right), right_color |-> SideColor(border_props._right),
             top |-> SideStyle(border_props._top), top_color |-> SideColor(border_props._top),
             bottom |-> SideStyle(border_props._bottom), bottom_color |-> SideColor(border_props._bottom)],
            _border_key(border_props))

\* StyleManager.get_number_format_id
get_number_format_id(self, format_code) ==
    LET Custom(format_id) ==
            IF HasKey(self.format_map, format_code)
            THEN Got(self, Lookup(self.format_map, format_code))
            ELSE Got([self EXCEPT !.number_formats = Append(@, [numFmtId |-> format_id,
                                                                 formatCode |-> format_code]),
                                  !.format_map = Append(@, Item(format_code, format_id))],
                     format_id)
    IN IF \E i \in 1..Len(BUILTIN_NUMBER_FORMATS) : BUILTIN_NUMBER_FORMATS[i].code = format_code
       THEN Got(self, BUILTIN_NUMBER_FORMATS[CHOOSE i \in 1..Len(BUILTIN_NUMBER_FORMATS) :
                                                BUILTIN_NUMBER_FORMATS[i].code = format_code].id)
       ELSE Custom(164 + Len(self.number_formats))

\* StyleManager.get_cell_format_id
get_cell_format_id(self, cell) ==
    LET Find(after, cell_format) ==
            IF Contains(after.cell_formats, cell_format)
            THEN Got(after, IndexOf(after.cell_formats, cell_format) - 1)
            ELSE Got([after EXCEPT !.cell_formats = Append(@, cell_format)], Len(after.cell_formats))
        Formatted(font_id, fill_id, border_id, number) ==
            Find(number.self, [font_id |-> font_id, fill_id |-> fill_id, border_id |-> border_id,
                               number_format_id |-> number.id])
        Numbered(font_id, fill_id, border) ==
            Formatted(font_id, fill_id, border.id,
                      IF cell._number_format # "General"
                      THEN get_number_format_id(border.self, cell._number_format)
                      ELSE Got(border.self, 0))
        Bordered(font_id, fill) ==
            Numbered(font_id, fill.id,
                     IF cell._style # NoneVal /\ cell._style._border # NoneVal
                     THEN get_border_id(fill.self, cell._style._border)
                     ELSE Got(fill.self, 0))
        Filled(font) ==
            Bordered(font.id,
                     IF cell._style # NoneVal /\ cell._style._fill # NoneVal
                     THEN get_fill_id(font.self, cell._style._fill)
                     ELSE Got(font.self, 0))
    IN Filled(IF cell._style # NoneVal /\ cell._style._font # NoneVal
              THEN get_font_id(self, cell._style._font)
              ELSE Got(self, 0))

\* XlsxWriter._analyze_styles: the cells with a value register their format
RECURSIVE AnalyzeFrom(_, _, _)
AnalyzeFrom(self, entries, i) ==
    IF i > Len(entries) THEN self
    ELSE AnalyzeFrom(IF entries[i].cell.value # NoneVal
                     THEN get_cell_format_id(self, entries[i].cell).self ELSE self,
                     entries, i + 1)
_analyze_styles(self, workbook) == AnalyzeFrom(self, AllEntries(workbook, 1), 1)

\* XlsxWriter._write_styles: the numFmt, font, fill, border and xf elements
_write_styles(self) ==
    LET Rgb(color) == PyStr(<<"FF">> \o color)
        FontElem(font) ==
            [sz |-> str(font.size),
             color |-> IF font.color # <<"0", "0", "0", "0", "0", "0">> THEN Rgb(font.color) ELSE NoneVal,
             name |-> font.name, b |-> font.bold, i |-> font.italic]
        FillElem(fill) ==
            [patternType |-> fill.pattern,
             fgColor |-> IF fill.color.k = "str" /\ fill.color.s # <<>> /\ fill.pattern = "solid"
                         THEN Rgb(fill.color.s) ELSE NoneVal]
        SideElem(side_style, side_color) ==
            IF side_style.k = "str" /\ side_style.s # <<"none">>
            THEN [style |-> side_style,
                  color |-> IF side_color.k = "str" /\ side_color.s # <<"b", "l", "a", "c", "k">>
                            THEN Rgb(_normalize_color(side_color.s)) ELSE NoneVal]
            ELSE [style |-> NoneVal, color |-> NoneVal]
        BorderElem(border) ==
            [left |-> SideElem(border.left, border.left_color),
             right |-> SideElem(border.right, border.right_color),
             top |-> SideElem(border.top, border.top_color),
             bottom |-> SideElem(border.bottom, border.bottom_color)]
        Xf(cell_format) ==
            [numFmtId |-> cell_format.number_format_id, fontId |-> cell_format.font_id,
             fillId |-> cell_format.fill_id, borderId |-> cell_format.border_id,
             applyFont |-> cell_format.font_id > 0, applyFill |-> cell_format.fill_id > 0,
             applyBorder |-> cell_format.border_id > 0,
             applyNumberFormat |-> cell_format.number_format_id > 0]
    IN [kind |-> "styles",
        numFmts |-> self.number_formats,
        fonts |-> [k \in 1..Len(self.fonts) |-> FontElem(self.fonts[k])],
        fills |-> [k \in 1..Len(self.fills) |-> FillElem(self.fills[k])],
        borders |-> [k \in 1..Len(self.borders) |-> BorderElem(self.borders[k])],
        cellXfs |-> [k \in 1..Len(self.cell_formats) |-> Xf(self.cell_formats[k])]]

\* XlsxWriter(): a writer with its style manager
XlsxWriter == [style_manager |-> StyleManager]

\* the s attribute of the <c> elements of the cells written, in the order
\* of the cells (the cells of the model are created in row-major order):
\* the cell format ID when it is not 0
RECURSIVE StyleIdsFrom(_, _, _, _)
StyleIdsFrom(self, entries, i, ids) ==
    LET Styled(got) ==
            StyleIdsFrom(got.self, entries, i + 1,
                         Append(ids, [r |-> tuple_to_coordinate(entries[i].coord[1], entries[i].coord[2]),
                                      s |-> IF got.id > 0 THEN PyStr(Digits(got.id)) ELSE NoneVal]))
    IN IF i > Len(entries) THEN [self |-> self, ids |-> ids]
       ELSE IF entries[i].cell.value = NoneVal THEN StyleIdsFrom(self, entries, i + 1, ids)
       ELSE Styled(get_cell_format_id(self, entries[i].cell))

\* a writer that keeps the style manager of the save before
writeKeepTables(self, workbook) ==
    LET Written(analyzed, package) ==
            [package |-> [k \in 1..Len(package) |->
                             IF package[k].path = STYLES_PATH
                             THEN Part(STYLES_PATH, _write_styles(analyzed)) ELSE package[k]],
             styled |-> StyleIdsFrom(analyzed, AllEntries(workbook, 1), 1, <<>>)]
        Done(written) ==
            [self |-> [self EXCEPT !.style_manager = written.styled.self],
             package |-> written.package, style_ids |-> written.styled.ids]
    IN Done(Written(_analyze_styles(self.style_manager, workbook), save_workbook(workbook)))

\* XlsxWriter.write and save_workbook on a writer: the style manager is
\* replaced by a new one, the styles of the cells are registered, and the
\* package is written with the tables in its styles part; the s attributes
\* of the cells are kept beside the package
write(self, workbook) ==
    LET Written(analyzed, package) ==
            [package |-> [k \in 1..Len(package) |->
                             IF package[k].path = STYLES_PATH
                             THEN Part(STYLES_PATH, _write_styles(analyzed)) ELSE package[k]],
             styled |-> StyleIdsFrom(analyzed, AllEntries(workbook, 1), 1, <<>>)]
        Done(written) ==
            [self |-> [self EXCEPT !.style_manager = written.styled.self],
             package |-> written.package, style_ids |-> written.styled.ids]
    IN Done(Written(_analyze_styles(StyleManager, workbook), save_workbook(workbook)))

\* ------------------------------------------------------------------------
\* Saving styled workbooks, one after the other, with one writer.  input
\* holds the workbooks, output the writer and what each save wrote.
\* ------------------------------------------------------------------------
MaxStyled == 2

Red == <<"r", "e", "d">>
RedHex == <<"F", "F", "0", "0", "0", "0">>
RedLower == <<"#", "f", "f", "0", "0", "0", "0">>
Black == <<"b", "l", "a", "c", "k">>
Blue == <<"b", "l", "u", "e">>

\* a cell with a value, a style (or none) and a number format
StyledCell(value, style, number_format) ==
    SetValue(NewCell, value) @@ [_style |-> style, _number_format |-> number_format]

\* cells whose font, fill or border is given with the same color by name
\* and by hex value, and cells with built-in and custom number formats
StyledCells ==
    {StyledCell(PyInt(7), NoneVal, "General"),
     StyledCell(PyInt(7), Style(Font(FALSE, Red), NoneVal, NoneVal), "General"),
     StyledCell(PyInt(7), Style(Font(FALSE, RedHex), NoneVal, NoneVal), "General"),
     StyledCell(PyInt(7), Style(Font(FALSE, RedLower), NoneVal, NoneVal), "General"),
     StyledCell(PyInt(7), Style(Font(TRUE, Black), NoneVal, NoneVal), "General"),
     StyledCell(PyInt(7), Style(NoneVal, Fill(Red), NoneVal), "General"),
     StyledCell(PyInt(7), Style(NoneVal, Fill(RedHex), NoneVal), "General"),
     StyledCell(PyInt(7), Style(NoneVal, NoneVal, Border(BorderSide("thin", Red))), "General"),
     StyledCell(PyInt(7), Style(NoneVal, NoneVal, Border(BorderSide("thin", RedHex))), "General"),
     StyledCell(PyInt(7), NoneVal, "0.00"),
     StyledCell(PyInt(7), NoneVal, "yyyy"),
     StyledCell(PyInt(7), NoneVal, "0.0"),
     StyledCell(PyInt(7), NoneVal, "$#,##0"),
     StyledCell(PyStr(<<"a">>), Style(Font(FALSE, Red), NoneVal, NoneVal), "yyyy"),
     StyledCell(NoneVal, Style(NoneVal, Fill(Blue), NoneVal), "General")}

\* one sheet with the cells in its first row
StyledBook(styled) ==
    <<Worksheet(SheetName(1), [i \in 1..Len(styled) |-> Entry(<<1, i>>, styled[i])])>>
StyledBooks == {StyledBook(s) : s \in UNION {[1..n -> StyledCells] : n \in 1..MaxStyled}}

\* the workbooks saved first: one without cells, one with a font, a custom
\* number format and text, one with a fill, a border and a custom number
\* format
FirstBooks ==
    {StyledBook(<<>>),
     StyledBook(<<StyledCell(PyStr(<<"z">>), Style(Font(TRUE, Blue), NoneVal, NoneVal), "0.0"),
                  StyledCell(PyStr(<<"a">>), NoneVal, "General")>>),
     StyledBook(<<StyledCell(PyInt(1), Style(NoneVal, Fill(Blue), Border(BorderSide("thick", Blue))), "hh:mm")>>)}

InitStyles ==
    /\ cells = EmptyGrid
    /\ MachineInit
    /\ input \in {[family |-> "styled", books |-> <<first, second>>] :
                    first \in FirstBooks, second \in StyledBooks}
    /\ output = [st |-> "writer", writer |-> XlsxWriter, saved |-> <<>>]

\* writer.write(filename, workbook) with the next workbook
SaveStyled ==
    /\ output.st = "writer"
    /\ Len(output.saved) < Len(input.books)
    /\ LET Saved1(written) ==
               [st |-> "writer", writer |-> written.self,
                saved |-> Append(output.saved, [package |-> written.package,
                                                style_ids |-> written.style_ids])]
       IN output' = Saved1(write(output.writer, input.books[Len(output.saved) + 1]))
    /\ UNCHANGED <<cells, frames, stack, res, call, steps, input>>

NextStyles == SaveStyled

SpecStyles == InitStyles /\ [][NextStyles]_vars

\* C22: what each save of a sequence of saves with one writer writes, the
\* styles part, the s attributes and the shared-string indices of the
\* cells, is what a new writer writes for the same workbook.
C22_TablesResetAtEverySave ==
    output.st = "writer" =>
        \A k \in 1..Len(output.saved) :
            /\ output.saved[k].package = write(XlsxWriter, input.books[k]).package
            /\ output.saved[k].style_ids = write(XlsxWriter, input.books[k]).style_ids

\* C22 witness: after a workbook with a font, a custom number format and
\* text, a workbook with another custom number format has been saved and
\* its format has the first custom ID
C22_SecondSaveStartsAfresh ==
    /\ output.st = "writer"
    /\ Len(output.saved) = 2
    /\ Len(input.books[1][1].cells) = 2
    /\ Len(input.books[2][1].cells) = 1
    /\ input.books[2][1].cells[1].cell._number_format = "yyyy"
    /\ ReadPart(output.saved[1].package, STYLES_PATH).numFmts = <<[numFmtId |-> 164, formatCode |-> "0.0"]>>
    /\ ReadPart(output.saved[2].package, STYLES_PATH).numFmts = <<[numFmtId |-> 164, formatCode |-> "yyyy"]>>

\* the cells of save k that are written, in the order of their s attributes
WrittenCells(k) ==
    LET HasValue(e) == e.cell.value # NoneVal IN SelectSeq(input.books[k][1].cells, HasValue)
\* the xf element that written cell j of save k refers to
XfOf(k, j) ==
    LET At(s) == ReadPart(output.saved[k].package, STYLES_PATH).cellXfs[
                    (IF s = NoneVal THEN 0 ELSE DigitsVal(s.s)) + 1]
    IN At(output.saved[k].style_ids[j].s)
\* the parts of the style of a cell, colors as 6-digit RGB; none without
CanonFont(cell) ==
    IF cell._style # NoneVal /\ cell._style._font # NoneVal
    THEN [cell._style._font EXCEPT !.color = PyStr(_normalize_color(@))]
    ELSE NoneVal
CanonFill(cell) ==
    IF cell._style # NoneVal /\ cell._style._fill # NoneVal
    THEN [cell._style._fill EXCEPT !.color = PyStr(_normalize_color(@))]
    ELSE NoneVal
CanonBorder(cell) ==
    IF cell._style # NoneVal /\ cell._style._border # NoneVal /\ cell._style._border._left # NoneVal
    THEN [style |-> cell._style._border._left.style,
          color |-> PyStr(_normalize_color(cell._style._border._left.color))]
    ELSE NoneVal

\* C23: within one save, two cells whose fonts (fills, borders, number
\* formats) are equal once their colors are 6-digit RGB have the same font
\* (fill, border, number format) ID, and two cells equal in all four have
\* the same cell format ID.
C23_EqualStylesShareIds ==
    output.st = "writer" =>
        \A k \in 1..Len(output.saved) : \A i, j \in 1..Len(WrittenCells(k)) :
            LET a == WrittenCells(k)[i].cell
                b == WrittenCells(k)[j].cell
            IN /\ CanonFont(a) = CanonFont(b) => XfOf(k, i).fontId = XfOf(k, j).fontId
               /\ CanonFill(a) = CanonFill(b) => XfOf(k, i).fillId = XfOf(k, j).fillId
               /\ CanonBorder(a) = CanonBorder(b) => XfOf(k, i).borderId = XfOf(k, j).borderId
               /\ a._number_format = b._number_format => XfOf(k, i).numFmtId = XfOf(k, j).numFmtId
               /\ (/\ CanonFont(a) = CanonFont(b)
                   /\ CanonFill(a) = CanonFill(b)
                   /\ CanonBorder(a) = CanonBorder(b)
                   /\ a._number_format = b._number_format)
                  => output.saved[k].style_ids[i].s = output.saved[k].style_ids[j].s

\* C27: within one save, two cells with different number-format codes
\* have different number-format IDs.
C27_NumberFormatIdsDistinct ==
    output.st = "writer" =>
        \A k \in 1..Len(output.saved) : \A i, j \in 1..Len(WrittenCells(k)) :
            WrittenCells(k)[i].cell._number_format # WrittenCells(k)[j].cell._number_format
                => XfOf(k, i).numFmtId # XfOf(k, j).numFmtId

\* ------------------------------------------------------------------------
\* Anchors of images (drawing/anchor.py) and their drawing XML
\* (io/xlsx/image_writer.py)
\* ------------------------------------------------------------------------
\* XlsxConstants.IMAGE_DEFAULTS
IMAGE_DEFAULTS == [width |-> 100, height |-> 100, emu_per_pixel |-> 9525]

\* Anchor(anchor_type)
Anchor(anchor_type) ==
    [_type |-> anchor_type, _from_row |-> 0, _from_col |-> 0,
     _from_row_offset |-> 0, _from_col_offset |-> 0,
     _to_row |-> NoneVal, _to_col |-> NoneVal, _to_row_offset |-> 0, _to_col_offset |-> 0,
     _x |-> NoneVal, _y |-> NoneVal]

\* the setters of from_position, from_offset, to_position, to_offset and
\* absolute_position, each given a pair
set_from_position(anchor, value) == [anchor EXCEPT !._from_row = value[1], !._from_col = value[2]]
set_from_offset(anchor, value) ==
    [anchor EXCEPT !._from_row_offset = value[1], !._from_col_offset = value[2]]
set_to_position(anchor, value) ==
    [anchor EXCEPT !._to_row = PyInt(value[1]), !._to_col = PyInt(value[2]),
                   !._type = IF @ = "oneCell" THEN "twoCell" ELSE @]
set_to_offset(anchor, value) ==
    [anchor EXCEPT !._to_row_offset = value[1], !._to_col_offset = value[2]]
set_absolute_position(anchor, value) ==
    [anchor EXCEPT !._x = PyInt(value[1]), !._y = PyInt(value[2]), !._type = "absolute"]

\* the properties: from_position is (row, col), from_offset and to_offset
\* are (row_offset, col_offset), to_position and absolute_position are
\* None for the other anchor types
from_position(anchor) == <<anchor._from_row, anchor._from_col>>
from_offset(anchor) == <<anchor._from_row_offset, anchor._from_col_offset>>
to_position(anchor) ==
    IF anchor._type = "twoCell" /\ anchor._to_row # NoneVal
    THEN Val(<<anchor._to_row.n, anchor._to_col.n>>) ELSE Val(NoneVal)
to_offset(anchor) == <<anchor._to_row_offset, anchor._to_col_offset>>
absolute_position(anchor) ==
    IF anchor._type = "absolute" /\ anchor._x # NoneVal
    THEN Val(<<anchor._x.n, anchor._y.n>>) ELSE Val(NoneVal)

\* Anchor.from_range with the 1-based rows and columns of the two cells
from_range(start, end, start_offset, end_offset) ==
    set_to_offset(
        set_to_position(
            set_from_offset(
                set_from_position(Anchor("twoCell"), <<start[1] - 1, start[2] - 1>>),
                start_offset),
            <<end[1] - 1, end[2] - 1>>),
        end_offset)
\* Anchor.absolute
absolute(x, y) == set_absolute_position(Anchor("absolute"), <<x, y>>)

\* an image: its anchor and its size in pixels, None when unknown
Image(anchor, width, height) == [anchor |-> anchor, width |-> width, height |-> height]

\* str(pixels * emu_per_pixel)
EmuText(pixels) == Digits(pixels * IMAGE_DEFAULTS.emu_per_pixel)
\* image.width or the default width: None and 0 give the default
OrDefault(size, default) == IF size # NoneVal /\ size.n # 0 THEN size.n ELSE default

\* the <xdr:ext> of an anchor element and the <a:ext> of its picture
Extent(image) ==
    [cx |-> EmuText(OrDefault(image.width, IMAGE_DEFAULTS.width)),
     cy |-> EmuText(OrDefault(image.height, IMAGE_DEFAULTS.height))]

\* a from or to element
Corner(col, colOff, row, rowOff) == [col |-> col, colOff |-> colOff, row |-> row, rowOff |-> rowOff]

\* ImageWriter._create_one_cell_anchor: colOff is made of the first and
\* rowOff of the second component of from_offset
_create_one_cell_anchor(image) ==
    [tag |-> "oneCellAnchor",
     from |-> Corner(Digits(from_position(image.anchor)[2]), EmuText(from_offset(image.anchor)[1]),
                     Digits(from_position(image.anchor)[1]), EmuText(from_offset(image.anchor)[2])),
     ext |-> Extent(image),
     pic |-> Extent(image)]

\* ImageWriter._create_two_cell_anchor: to_col_off, to_row_off are the
\* first and the second component of to_offset; without a to position the
\* to corner is five rows and three columns further, without offsets
_create_two_cell_anchor(image) ==
    LET To(position) ==
            IF position.v # NoneVal
            THEN Corner(Digits(position.v[2]), EmuText(to_offset(image.anchor)[1]),
                        Digits(position.v[1]), EmuText(to_offset(image.anchor)[2]))
            ELSE Corner(Digits(from_position(image.anchor)[2] + 3), EmuText(0),
                        Digits(from_position(image.anchor)[1] + 5), EmuText(0))
    IN [tag |-> "twoCellAnchor",
        from |-> Corner(Digits(from_position(image.anchor)[2]), EmuText(from_offset(image.anchor)[1]),
                        Digits(from_position(image.anchor)[1]), EmuText(from_offset(image.anchor)[2])),
        to |-> To(to_position(image.anchor)),
        pic |-> Extent(image)]

\* ImageWriter._create_absolute_anchor
_create_absolute_anchor(image) ==
    LET Pos(abs_pos) ==
            IF abs_pos.v # NoneVal
            THEN [x |-> EmuText(abs_pos.v[1]), y |-> EmuText(abs_pos.v[2])]
            ELSE [x |-> EmuText(0), y |-> EmuText(0)]
    IN [tag |-> "absoluteAnchor",
        pos |-> Pos(absolute_position(image.anchor)),
        ext |-> Extent(image),
        pic |-> Extent(image)]

\* ImageWriter._create_anchor_element
_create_anchor_element(image) ==
    CASE image.anchor._type = "oneCell" -> _create_one_cell_anchor(image)
      [] image.anchor._type = "twoCell" -> _create_two_cell_anchor(image)
      [] image.anchor._type = "absolute" -> _create_absolute_anchor(image)
      [] OTHER -> _create_two_cell_anchor(image)

\* ------------------------------------------------------------------------
\* Writing the anchor element of an image.  input holds the image, output
\* the element.
\* ------------------------------------------------------------------------
MaxPixels == 2
Pixels == 0..MaxPixels
Offsets == Pixels \X Pixels
Sizes == {NoneVal} \cup {PyInt(p) : p \in Pixels}

\* images anchored at one cell, between two cells and at an absolute
\* position
Images ==
    {Image(set_from_offset(set_from_position(Anchor("oneCell"), <<2, 3>>), o), w, h) :
        o \in Offsets, w \in Sizes, h \in Sizes}
    \cup {Image(from_range(<<2, 2>>, <<4, 5>>, o, p), PyInt(1), PyInt(2)) : o \in Offsets, p \in Offsets}
    \cup {Image(set_to_offset(set_from_offset(Anchor("twoCell"), o), p), PyInt(1), PyInt(2)) :
            o \in Offsets, p \in Offsets}
    \cup {Image(absolute(o[1], o[2]), w, h) : o \in Offsets, w \in Sizes, h \in Sizes}

InitImages ==
    /\ cells = EmptyGrid
    /\ MachineInit
    /\ input \in {[family |-> "image", image |-> i] : i \in Images}
    /\ output = NoOutput

\* ImageWriter()._create_anchor_element(image, rel_id)
CreateAnchor ==
    /\ input.family = "image"
    /\ output.st = "none"
    /\ output' = [st |-> "anchor", elem |-> _create_anchor_element(input.image)]
    /\ UNCHANGED <<cells, frames, stack, res, call, steps, input>>

NextImages == CreateAnchor

SpecImages == InitImages /\ [][NextImages]_vars

\* the anchor element of the image has been made
Anchored == input.family = "image" /\ output.st = "anchor"

\* C24: every pixel quantity of the anchor of an image is emitted as
\* pixels x 9525: the column and row offsets of a cell anchor, the x and y
\* of an absolute anchor, and the width and height of the extent.
C24_PixelsTimes9525 ==
    Anchored =>
        /\ output.elem.tag \in {"oneCellAnchor", "twoCellAnchor"} =>
              /\ output.elem.from.colOff = Digits(input.image.anchor._from_col_offset * 9525)
              /\ output.elem.from.rowOff = Digits(input.image.anchor._from_row_offset * 9525)
        /\ output.elem.tag = "twoCellAnchor" /\ input.image.anchor._to_row # NoneVal =>
              /\ output.elem.to.colOff = Digits(input.image.anchor._to_col_offset * 9525)
              /\ output.elem.to.rowOff = Digits(input.image.anchor._to_row_offset * 9525)
        /\ output.elem.tag = "absoluteAnchor" =>
              /\ output.elem.pos.x = Digits(input.image.anchor._x.n * 9525)
              /\ output.elem.pos.y = Digits(input.image.anchor._y.n * 9525)
        /\ output.elem.tag \in {"oneCellAnchor", "absoluteAnchor"} =>
              /\ input.image.width # NoneVal => output.elem.ext.cx = Digits(input.image.width.n * 9525)
              /\ input.image.height # NoneVal => output.elem.ext.cy = Digits(input.image.height.n * 9525)

\* C29: the column offset emitted for a cell-anchored image is the column
\* offset of its anchor and the row offset emitted its row offset, in EMU,
\* at the from corner and at the to corner.
C29_OffsetsOfTheirAxis ==
    Anchored /\ output.elem.tag \in {"oneCellAnchor", "twoCellAnchor"} =>
        /\ output.elem.from.colOff = EmuText(input.image.anchor._from_col_offset)
        /\ output.elem.from.rowOff = EmuText(input.image.anchor._from_row_offset)
        /\ output.elem.tag = "twoCellAnchor" /\ input.image.anchor._to_row # NoneVal =>
              /\ output.elem.to.colOff = EmuText(input.image.anchor._to_col_offset)
              /\ output.elem.to.rowOff = EmuText(input.image.anchor._to_row_offset)

\* ------------------------------------------------------------------------
\* Converting coordinates.  input holds a row and a column, output the
\* reference made of them and what is read back from it.
\* ------------------------------------------------------------------------
MaxRow == 12
MaxColumn == 60
\* the columns around the places where the letters grow: Z, AA, ZZ, AAA
\* and the last column of a sheet, XFD
Columns == 1..MaxColumn \cup {701, 702, 703, 704, 16384}
Rows == 1..MaxRow \cup {99, 100, 1048576}

InitCoords ==
    /\ cells = EmptyGrid
    /\ MachineInit
    /\ input \in {[family |-> "coord", row |-> r, column |-> c] : r \in Rows, c \in Columns}
    /\ output = NoOutput

\* tuple_to_coordinate(row, column) and column_index_to_letter(column),
\* then coordinate_to_tuple and column_letter_to_index of the results
Convert ==
    /\ input.family = "coord"
    /\ output.st = "none"
    /\ output' = [st |-> "converted",
                  coordinate |-> tuple_to_coordinate(input.row, input.column),
                  tuple |-> coordinate_to_tuple(tuple_to_coordinate(input.row, input.column)),
                  letter |-> column_index_to_letter(input.column),
                  index |-> column_letter_to_index(column_index_to_letter(input.column))]
    /\ UNCHANGED <<cells, frames, stack, res, call, steps, input>>

NextCoords == Convert

SpecCoords == InitCoords /\ [][NextCoords]_vars

\* C25: for a row and a column >= 1, the reference made of them reads
\* back as the same row and column, and the letters of the column read
\* back as the same index.
C25_CoordinatesRoundTrip ==
    input.family = "coord" /\ output.st = "converted" =>
        /\ output.tuple = Val(<<input.row, input.column>>)
        /\ output.index = input.column

\* C25 witness: row 10 and column 27 have been converted to AA10 and back
C25_AA10 ==
    /\ input.family = "coord"
    /\ input.row = 10
    /\ input.column = 27
    /\ output.st = "converted"
    /\ output.coordinate = <<"A", "A", "1", "0">>
    /\ output.tuple = Val(<<10, 27>>)

\* ------------------------------------------------------------------------
\* A formula that refers to a formula cell (SpecReference): A1 holds a
\* formula over B1, and B1 holds a formula entered with set_formula or
\* assigned as the value
\* ------------------------------------------------------------------------
ReferringFormulas ==
    { <<"=","B","1">>,
      <<"=","B","1","+","1">>,
      <<"=","S","U","M","(","B","1",")">> }
ReferencedFormulas ==
    { <<"=","2","+","3">>,
      <<"=","C","1">>,
      <<"=","C","1","*","2">> }
ReferenceGrids ==
    {Grid(FormulaCell(f), b, c) :
        f \in ReferringFormulas,
        b \in {FormulaCell(g) : g \in ReferencedFormulas}
                \cup {FormulaValueCell(g) : g \in ReferencedFormulas}
                \cup {ValueCell(PyInt(5))},
        c \in {ValueCell(PyInt(4)), NoCell}}

InitReference ==
    /\ cells \in ReferenceGrids
    /\ MachineInit
    /\ input = NoInput
    /\ output = NoOutput

NextReference == EvaluateCell \/ EvalStep

SpecReference == InitReference /\ [][NextReference]_vars

\* the innermost frame is about to read the reference token cell_ref
ReadsReference(cell_ref) ==
    /\ ~Idle
    /\ Top(frames).kind = "tokens"
    /\ Top(frames).i <= Len(Top(frames).tokens)
    /\ LET token == Top(frames).tokens[Top(frames).i] IN
          /\ token.type = OPERAND
          /\ token.subtype = REFERENCE
          /\ token.value = cell_ref

\* the formula of B1 is being evaluated, with B1 in the in-progress set
EvaluatesB1 ==
    /\ B1 \in stack
    /\ frames # <<>>
    /\ Top(frames).kind = "tokens"
    /\ Top(frames).is_eval
    /\ Top(frames).cell_address = B1

\* the outcome of the formula of A1 when the result of the formula text of
\* B1 is the operand
ResultAsOperand ==
    LET Used(operand) ==
            evaluate([cells EXCEPT ![Coord(B1)] = ValueCell(operand.res.v)],
                     call.formula, A1, {}).res
    IN Used(evaluate(cells, cells[Coord(B1)].value.s, B1, {A1}))

\* C26: when the formula of A1 refers to B1 and B1 holds a formula, given
\* with set_formula or assigned as a value that starts with "=", the read
\* of B1 evaluates the formula of B1 with B1 added to the in-progress set,
\* and the outcome of A1 is the one that has the result of B1 as operand.
C26_ReferencedFormulaEvaluated ==
    /\ [][(ReadsReference(B1) /\ is_formula(cells[Coord(B1)])) => EvaluatesB1']_vars
    /\ []((Finished /\ call.cell_address = A1 /\ is_formula(cells[Coord(B1)]))
            => res = ResultAsOperand)

\* ------------------------------------------------------------------------
\* Loading a package into a workbook that is in use (SpecReload)
\* ------------------------------------------------------------------------
\* Workbook() (workbook.py 97-107) after cells were set on its sheet: the
\* active sheet is the worksheet object registered as Sheet1
WorkbookWith(entries) ==
    LET default_sheet == Worksheet(SheetName(1), entries)
    IN [_worksheets |-> <<default_sheet>>,
        _active_sheet |-> default_sheet,
        _shared_strings |-> <<>>]

\* the part _load_worksheet reads for the sheet (reader.py 124-136)
ResolvedSheetPath(zip_file, sheet_info, relationships) ==
    LET Resolved(sheet_path) ==
            IF sheet_path = <<>> \/ sheet_path \notin namelist(zip_file)
            THEN SheetPath(sheet_info.sheetId) ELSE sheet_path
    IN Resolved(IF Truthy(sheet_info.id) /\ HasRel(relationships, sheet_info.id.s)
                THEN <<"xl/">> \o RelTarget(relationships, sheet_info.id.s)
                ELSE <<>>)

\* _load_worksheet (reader.py 113-160) on the worksheets of the workbook:
\* the worksheets it leaves, and whether an exception left it.  The
\* worksheet is registered (118-119) before its part is read, and holds the
\* cells of the <c> elements, then of the hyperlinks, before the one that
\* raised.
_load_worksheetInto(zip_file, worksheets, sheet_info, shared_strings, relationships) ==
    LET \* results[n]: the outcome of the first n items; results[0] is a value
        Outcome(results, last) ==
            [raised |-> results[last].st = "exc",
             cells |-> results[CHOOSE n \in 0..last :
                                  /\ results[n].st = "val"
                                  /\ \A m \in (n + 1)..last : results[m].st = "exc"].v]
        Registered(o) ==
            [raised |-> o.raised,
             _worksheets |-> PutSheet(worksheets, Worksheet(sheet_info.name, o.cells))]
        Linked(root, data) ==
            IF data.raised THEN data
            ELSE Outcome([n \in 0..Len(root.hyperlinks) |->
                             _process_hyperlinks(zip_file, data.cells,
                                                 [root EXCEPT !.hyperlinks = SubSeq(@, 1, n)],
                                                 sheet_info.sheetId)],
                         Len(root.hyperlinks))
        Data(root, elems) ==
            Linked(root, Outcome([n \in 0..Len(elems) |->
                                     ProcessCells(<<>>, SubSeq(elems, 1, n), 1, shared_strings)],
                                 Len(elems)))
        Found(sheet_path) ==
            IF sheet_path \notin namelist(zip_file) THEN [raised |-> FALSE, cells |-> <<>>]
            ELSE Data(ReadPart(zip_file, sheet_path),
                      CellElems(ReadPart(zip_file, sheet_path).rows, 1))
    IN Registered(Found(ResolvedSheetPath(zip_file, sheet_info, relationships)))

\* the loop of load_workbook (reader.py 44-45) over the sheets from i on
RECURSIVE LoadInto(_, _, _, _, _, _)
LoadInto(zip_file, worksheets, sheets, i, shared_strings, relationships) ==
    LET Next1(l) ==
            IF l.raised THEN l
            ELSE LoadInto(zip_file, l._worksheets, sheets, i + 1, shared_strings, relationships)
    IN IF i > Len(sheets) THEN [raised |-> FALSE, _worksheets |-> worksheets]
       ELSE Next1(_load_worksheetInto(zip_file, worksheets, sheets[i],
                                      shared_strings, relationships))

\* load_workbook(workbook, filename) (reader.py 30-55): the workbook when
\* the call has returned or raised FileFormatError
load_workbookInto(workbook, zip_file) ==
    LET Activated(l, shared_strings) ==
            [raised |-> l.raised,
             workbook |-> [_worksheets |-> l._worksheets,
                           _active_sheet |-> IF ~l.raised /\ l._worksheets # <<>>
                                             THEN l._worksheets[1]
                                             ELSE workbook._active_sheet,
                           _shared_strings |-> shared_strings]]
        Cleared(sheets, shared_strings) ==
            Activated(LoadInto(zip_file, <<>>, sheets, 1, shared_strings,
                               _read_workbook_relationships(zip_file)),
                      shared_strings)
        Structure(workbook_data) ==
            IF workbook_data.st = "exc" THEN [raised |-> TRUE, workbook |-> workbook]
            ELSE Cleared(workbook_data.v, _read_shared_strings(zip_file))
    IN Structure(_read_workbook_structure(zip_file))

\* <c> elements of the packages: a number under each well-formed reference
\* and under a malformed one
ReloadElems ==
    {[r |-> PyStr(ref), content |-> PlainContent] : ref \in WellFormedRefs \cup {<<"1", "A">>}}
\* the elements of the one or two sheets of a package
ReloadSheets ==
    UNION {[1..n -> UNION {[1..m -> ReloadElems] : m \in 0..MaxElems}] : n \in {1, 2}}
\* the package of the sheets, with the workbook part or without
ReloadParts(sheet_elems, structured) ==
    (IF structured
     THEN <<Part(WORKBOOK_PATH,
                 [kind |-> "workbook",
                  sheets |-> [i \in 1..Len(sheet_elems) |->
                                 [name |-> SheetName(i), sheetId |-> Digits(i),
                                  id |-> PyStr(RelId(i))]]])>>
     ELSE <<>>)
    \o <<Part(WORKBOOK_RELS_PATH,
              [kind |-> "rels",
               rels |-> [i \in 1..Len(sheet_elems) |->
                            Relationship(RelId(i), "worksheet", SheetTarget(Digits(i)), FALSE)]]),
         Part(SHARED_STRINGS_PATH, _write_shared_strings(Pool))>>
    \o [i \in 1..Len(sheet_elems) |-> Part(SheetPath(Digits(i)), RowPart(sheet_elems[i]))]

\* the workbooks loaded into: a new one, and one with a text in B2
TargetWorkbooks ==
    {WorkbookWith(<<>>), WorkbookWith(<<Entry(<<2, 2>>, SetValue(NewCell, PyStr(<<"o">>)))>>)}

InitReload ==
    /\ cells = EmptyGrid
    /\ MachineInit
    /\ input \in {[family |-> "reload", package |-> ReloadParts(s, structured)] :
                     s \in ReloadSheets, structured \in BOOLEAN}
    /\ output \in {[st |-> "target", workbook |-> w] : w \in TargetWorkbooks}

\* XlsxReader().load_workbook(workbook, filename) on the workbook in use
LoadWorkbook ==
    /\ output.st = "target"
    /\ LET Called(l) ==
              output' = [st |-> "reloaded", before |-> output.workbook,
                         raised |-> l.raised, workbook |-> l.workbook]
       IN Called(load_workbookInto(output.workbook, input.package))
    /\ UNCHANGED <<cells, frames, stack, res, call, steps, input>>

NextReload == LoadWorkbook

SpecReload == InitReload /\ [][NextReload]_vars

\* C28: when load_workbook has raised, the workbook has the worksheets,
\* the cells and the active sheet it had before the call.
C28_FailedLoadLeavesWorkbook ==
    (output.st = "reloaded" /\ output.raised)
        => /\ output.workbook._worksheets = output.before._worksheets
           /\ output.workbook._active_sheet = output.before._active_sheet

\* ------------------------------------------------------------------------
\* Worksheet.insert (SpecInsert).  The worksheet is its dict _cells in
\* insertion order with _max_row and _max_column; a cell carries _style,
\* _number_format and _comment besides the attributes of NewCell.
\* ------------------------------------------------------------------------
\* Cell.__init__ (cell.py 24-44): the value is set through the setter when
\* it is not None
Cell(value) ==
    LET created == NewCell @@ [_style |-> NoneVal, _number_format |-> "General",
                               _comment |-> NoneVal]
    IN IF value # NoneVal THEN SetValue(created, value) ELSE created

\* Worksheet.__init__ (worksheet.py 24-34)
NewWorksheet == [_cells |-> <<>>, _max_row |-> 0, _max_column |-> 0]

\* Worksheet._update_bounds (worksheet.py 80-83)
_update_bounds(self, row, column) ==
    [self EXCEPT !._max_row = Max(@, row), !._max_column = Max(@, column)]

\* del self._cells[coord]
DelCell(entries, coord) ==
    LET Other(e) == e.coord # coord IN SelectSeq(entries, Other)

\* the cell at coord replaced by changed, with the bounds the value setter
\* updates
WithCell(self, coord, changed) ==
    [_update_bounds(self, coord[1], coord[2]) EXCEPT !._cells = PutCell(@, coord, changed)]

\* Worksheet.cell(row, column, value) (worksheet.py 119-133) for row and
\* column >= 1: the worksheet
Worksheet_cell(self, row, column, value) ==
    LET Valued(ws) ==
            IF value # NoneVal
            THEN WithCell(ws, <<row, column>>, SetValue(CellAt(ws._cells, <<row, column>>), value))
            ELSE ws
    IN Valued(IF ~HasCell(self._cells, <<row, column>>)
              THEN WithCell(self, <<row, column>>, Cell(NoneVal))
              ELSE self)

\* the loop of insert over cells_to_move (worksheet.py 162-170): the old
\* key is deleted (it is in the dict: it was there at the start, or the
\* step before has put a cell under it), a new cell with the value, the
\* style and the number format is put one row down
RECURSIVE MoveCells(_, _, _)
MoveCells(self, cells_to_move, i) ==
    LET Moved(old_coord, old, new_coord) ==
            MoveCells([(IF old.value # NoneVal
                        THEN _update_bounds(self, new_coord[1], new_coord[2])
                        ELSE self)
                          EXCEPT !._cells =
                              PutCell(DelCell(@, old_coord), new_coord,
                                      [Cell(old.value) EXCEPT
                                          !._style = old._style,
                                          !._number_format = old._number_format])],
                      cells_to_move, i + 1)
    IN IF i > Len(cells_to_move) THEN self
       ELSE Moved(cells_to_move[i].coord, cells_to_move[i].cell,
                  <<cells_to_move[i].coord[1] + 1, cells_to_move[i].coord[2]>>)

\* the loop over the values of the new row (worksheet.py 173-175)
RECURSIVE InsertValues(_, _, _, _)
InsertValues(self, index, iterable, col) ==
    IF col > Len(iterable) THEN self
    ELSE InsertValues(IF iterable[col] # NoneVal
                      THEN Worksheet_cell(self, index, col, iterable[col])
                      ELSE self,
                      index, iterable, col + 1)

\* Worksheet.insert(index, iterable) (worksheet.py 150-175)
insert(self, index, iterable) ==
    LET From(first) ==
            LET AtOrBelow(e) == e.coord[1] >= first
            IN InsertValues(MoveCells(self, SelectSeq(self._cells, AtOrBelow), 1),
                            first, iterable, 1)
    IN From(IF index < 1 THEN 1 ELSE index)

\* the cells of the worksheets, by coordinate: texts, a formula with its
\* calculated value, a text with a hyperlink
InsertCoords == {<<1, 1>>, <<2, 1>>, <<3, 1>>, <<1, 2>>}
ContentAt(coord) ==
    CASE coord = <<1, 1>> -> Cell(PyStr(<<"a">>))
      [] coord = <<2, 1>> -> Cell(PyStr(<<"b">>))
      [] coord = <<3, 1>> -> SetFormula(Cell(NoneVal), <<"=", "1", "+", "1">>, PyInt(2))
      [] OTHER -> SetHyperlink(Cell(PyStr(<<"c">>)), PyStr(<<"h">>))

\* the worksheet after its cells were set in the order of the coordinates
RECURSIVE Filled(_, _, _)
Filled(self, coords, i) ==
    IF i > Len(coords) THEN self
    ELSE Filled(WithCell(Worksheet_cell(self, coords[i][1], coords[i][2], NoneVal),
                         coords[i], ContentAt(coords[i])),
                coords, i + 1)

InsertedRows ==
    {<<>>, <<PyStr(<<"n">>)>>, <<NoneVal, PyInt(7)>>, <<PyStr(<<"n">>), PyStr(<<"m">>)>>}

InitInsert ==
    /\ cells = EmptyGrid
    /\ MachineInit
    /\ input \in {[family |-> "insert", worksheet |-> Filled(NewWorksheet, at, 1),
                   index |-> index, iterable |-> iterable] :
                     at \in Arrangements(InsertCoords, MaxCells),
                     index \in 0..3,
                     iterable \in InsertedRows}
    /\ output = NoOutput

\* worksheet.insert(index, iterable)
Insert ==
    /\ input.family = "insert"
    /\ output.st = "none"
    /\ output' = [st |-> "inserted",
                  worksheet |-> insert(input.worksheet, input.index, input.iterable)]
    /\ UNCHANGED <<cells, frames, stack, res, call, steps, input>>

NextInsert == Insert

SpecInsert == InitInsert /\ [][NextInsert]_vars

\* C30: after insert(index, values), every cell that was in a row at or
\* below the index (1 for an index below 1) has its value one row down,
\* and every cell above the index has kept its value.
C30_InsertShiftsWithoutLoss ==
    output.st = "inserted" =>
        LET ValueAt(coord, value) ==
                /\ HasCell(output.worksheet._cells, coord)
                /\ CellAt(output.worksheet._cells, coord).value = value
            Kept(first, e) ==
                IF e.coord[1] >= first
                THEN ValueAt(<<e.coord[1] + 1, e.coord[2]>>, e.cell.value)
                ELSE ValueAt(e.coord, e.cell.value)
        IN \A i \in 1..Len(input.worksheet._cells) :
              Kept(IF input.index < 1 THEN 1 ELSE input.index, input.worksheet._cells[i])

====
